---- MODULE Spec2Model ----
(***************************************************************************)
(* Chat-Bruti retrieval core: TextChunker (app/modules/scraper.py) and     *)
(* SemanticSearch (app/modules/semantic_search.py).                        *)
(*                                                                         *)
(* Texts are sequences of one-character strings.  Scores are Python floats *)
(* (IEEE-754 binary64, round-to-nearest-even); they are modelled bit for   *)
(* bit as a 53-bit significand and a binary exponent, the significand held *)
(* as a little-endian sequence of base-2^15 limbs because the arithmetic   *)
(* needs up to 113-bit intermediate integers.                              *)
(***************************************************************************)
EXTENDS Integers, Sequences, FiniteSets

VARIABLES
    chunker,            \* the TextChunker instance
    documents,          \* chunk_documents: its argument
    all_chunks,         \* chunk_documents: the chunks collected so far
    doc_index,          \* chunk_documents: position of the loop over documents (1-based)
    semantic_search,    \* the SemanticSearch instance, None before construction
    pc,                 \* "chunk_documents", "idle", "scan" (in the loop of search), "returned"
    query,              \* search: arguments
    threshold,
    max_context_length,
    query_vector,       \* search: locals
    query_lower,
    best_score,
    best_chunk,
    best_index,
    i,                  \* search: number of vectors scored, the next 0-based index
    score,              \* search: score of the chunk scored last
    result,             \* search: the value returned, None when none (yet)
    cosine_call,        \* a call of _cosine_similarity on its own: arguments and results
    heap,               \* the API: the SemanticSearch instances in memory, by reference
    threads,            \* the API: the startup event and the requests being served
    groq_client,        \* the API: the Groq client, None when it could not be created
    data_file,          \* the API: the exported chunks on disk, None when there is no file
    vectorize_call,     \* a call of _clean_and_vectorize on its own: argument and results
    page_text,          \* scrape_url: the text of the page fetched, None when none
    ask_call            \* the standalone API (main.py): the request of /ask and its response

vars ==
    <<chunker, documents, all_chunks, doc_index, semantic_search, pc, query, threshold,
      max_context_length, query_vector, query_lower, best_score, best_chunk, best_index,
      i, score, result, cosine_call, heap, threads, groq_client, data_file,
      vectorize_call, page_text, ask_call>>

\* the calls and requests that are followed on their own
units == <<vectorize_call, page_text, ask_call>>

\* the variables outside the chunker, the index and the search call
others == <<cosine_call, heap, threads, groq_client, data_file, vectorize_call, page_text, ask_call>>

\* the variables of the API (app/main.py)
api == <<heap, threads, groq_client, data_file>>

(***************************************************************************)
(* Unbounded naturals: little-endian limbs, no high zero limb, <<>> is 0.  *)
(***************************************************************************)
LimbBits == 15
Limb == 2^LimbBits

RECURSIVE BNorm(_)
BNorm(x) ==
    IF x = <<>> THEN <<>>
    ELSE IF x[Len(x)] = 0 THEN BNorm(SubSeq(x, 1, Len(x) - 1)) ELSE x

RECURSIVE BFromInt(_)
BFromInt(n) == IF n = 0 THEN <<>> ELSE <<n % Limb>> \o BFromInt(n \div Limb)

RECURSIVE BToInt(_)
BToInt(x) == IF x = <<>> THEN 0 ELSE Head(x) + Limb * BToInt(Tail(x))

RECURSIVE BAddC(_, _, _)
BAddC(x, y, c) ==
    IF x = <<>> /\ y = <<>> THEN (IF c = 0 THEN <<>> ELSE <<c>>)
    ELSE LET a == IF x = <<>> THEN 0 ELSE Head(x)
             b == IF y = <<>> THEN 0 ELSE Head(y)
             s == a + b + c
         IN  <<s % Limb>> \o BAddC(IF x = <<>> THEN <<>> ELSE Tail(x),
                                   IF y = <<>> THEN <<>> ELSE Tail(y),
                                   s \div Limb)

BAdd(x, y) == BAddC(x, y, 0)

RECURSIVE BMulSmallC(_, _, _)
BMulSmallC(x, k, c) ==
    IF x = <<>> THEN (IF c = 0 THEN <<>> ELSE <<c>>)
    ELSE LET p == Head(x) * k + c
         IN  <<p % Limb>> \o BMulSmallC(Tail(x), k, p \div Limb)

BMulSmall(x, k) == IF k = 0 THEN <<>> ELSE BMulSmallC(x, k, 0)

RECURSIVE BMul(_, _)
BMul(x, y) ==
    IF x = <<>> \/ y = <<>> THEN <<>>
    ELSE LET rest == BMul(x, Tail(y))
         IN  BAdd(BMulSmall(x, Head(y)),
                  IF rest = <<>> THEN <<>> ELSE <<0>> \o rest)

RECURSIVE BCmpFrom(_, _, _)
BCmpFrom(x, y, k) ==
    IF k = 0 THEN 0
    ELSE IF x[k] < y[k] THEN -1
    ELSE IF x[k] > y[k] THEN 1
    ELSE BCmpFrom(x, y, k - 1)

BCmp(x, y) ==
    IF Len(x) < Len(y) THEN -1
    ELSE IF Len(x) > Len(y) THEN 1
    ELSE BCmpFrom(x, y, Len(x))

RECURSIVE BitLenSmall(_)
BitLenSmall(v) == IF v = 0 THEN 0 ELSE 1 + BitLenSmall(v \div 2)

BBitLen(x) ==
    IF x = <<>> THEN 0 ELSE LimbBits * (Len(x) - 1) + BitLenSmall(x[Len(x)])

BShl(x, s) ==
    IF x = <<>> THEN <<>>
    ELSE [k \in 1..(s \div LimbBits) |-> 0] \o BMulSmallC(x, 2^(s % LimbBits), 0)

BShr(x, s) ==
    LET d == s \div LimbBits
        r == s % LimbBits
        y == SubSeq(x, d + 1, Len(x))
    IN  BNorm([k \in 1..Len(y) |->
                 (y[k] \div 2^r)
                 + (IF k < Len(y) THEN (y[k + 1] % 2^r) * 2^(LimbBits - r) ELSE 0)])

BIsOdd(x) == x # <<>> /\ Head(x) % 2 = 1

\* floor(a / d) from bit k down; st = <<q, q * d>> for the quotient bits q already set
RECURSIVE BDivBits(_, _, _, _)
BDivBits(a, d, st, k) ==
    IF k < 0 THEN st[1]
    ELSE LET c == BAdd(st[2], BShl(d, k))
         IN  IF BCmp(c, a) <= 0
             THEN BDivBits(a, d, <<BAdd(st[1], BShl(<<1>>, k)), c>>, k - 1)
             ELSE BDivBits(a, d, st, k - 1)

BDivFloor(a, d) ==
    IF BCmp(a, d) < 0 THEN <<>>
    ELSE BDivBits(a, d, <<(<<>>), (<<>>)>>, BBitLen(a) - BBitLen(d))

\* floor(sqrt(a)) from bit k down; s is the root so far and s2 its square
RECURSIVE BSqrtBits(_, _, _, _)
BSqrtBits(a, s, s2, k) ==
    IF k < 0 THEN s
    ELSE LET c2 == BAdd(BAdd(s2, BShl(s, k + 1)), BShl(<<1>>, 2 * k))
         IN  IF BCmp(c2, a) <= 0
             THEN BSqrtBits(a, BAdd(s, BShl(<<1>>, k)), c2, k - 1)
             ELSE BSqrtBits(a, s, s2, k - 1)

BSqrtFloor(a) == BSqrtBits(a, <<>>, <<>>, BBitLen(a) \div 2)

(***************************************************************************)
(* Python float: [m |-> significand, e |-> exponent], value m * 2^e with   *)
(* 2^52 <= m < 2^53, or m = <<>> for 0.0; neg marks a negative value       *)
(* (only a caller's threshold can be negative).                            *)
(***************************************************************************)
MantBits == 53

FZero == [neg |-> FALSE, m |-> <<>>, e |-> 0]

\* n * 2^e (n a natural, any size) rounded to nearest, ties to even
RoundF(n, e) ==
    IF n = <<>> THEN FZero
    ELSE LET L == BBitLen(n) IN
         IF L <= MantBits
         THEN [neg |-> FALSE, m |-> BShl(n, MantBits - L), e |-> e - (MantBits - L)]
         ELSE LET s    == L - MantBits
                  q    == BShr(n, s)
                  half == BIsOdd(BShr(n, s - 1))
                  rest == BShl(BShr(n, s - 1), s - 1) # n
                  up   == half /\ (rest \/ BIsOdd(q))
                  q1   == IF up THEN BAdd(q, <<1>>) ELSE q
              IN  IF BBitLen(q1) > MantBits
                  THEN [neg |-> FALSE, m |-> BShr(q1, 1), e |-> e + s + 1]
                  ELSE [neg |-> FALSE, m |-> q1, e |-> e + s]

FFromInt(n) == IF n < 0 THEN [RoundF(BFromInt(-n), 0) EXCEPT !.neg = TRUE]
               ELSE RoundF(BFromInt(n), 0)

\* comparison of two non-negative floats: -1, 0, 1
FCmpAbs(a, b) ==
    IF a.m = <<>> THEN (IF b.m = <<>> THEN 0 ELSE -1)
    ELSE IF b.m = <<>> THEN 1
    ELSE IF a.e < b.e THEN -1
    ELSE IF a.e > b.e THEN 1
    ELSE BCmp(a.m, b.m)

FCmp(a, b) ==
    IF a.neg /\ b.neg THEN FCmpAbs(b, a)
    ELSE IF a.neg THEN (IF a.m = <<>> /\ b.m = <<>> THEN 0 ELSE -1)
    ELSE IF b.neg THEN (IF a.m = <<>> /\ b.m = <<>> THEN 0 ELSE 1)
    ELSE FCmpAbs(a, b)

FGt(a, b) == FCmp(a, b) > 0

\* a + b for non-negative floats
FAdd(a, b) ==
    IF a.m = <<>> THEN b
    ELSE IF b.m = <<>> THEN a
    ELSE LET e == IF a.e < b.e THEN a.e ELSE b.e
         IN  RoundF(BAdd(BShl(a.m, a.e - e), BShl(b.m, b.e - e)), e)

\* a * b for non-negative floats
FMul(a, b) == RoundF(BMul(a.m, b.m), a.e + b.e)

\* a / b for non-negative floats, b # 0: 56 extra quotient bits and a sticky bit
FDiv(a, b) ==
    IF a.m = <<>> THEN FZero
    ELSE LET num == BShl(a.m, MantBits + 3)
             q   == BDivFloor(num, b.m)
             st  == IF BMul(q, b.m) = num THEN <<>> ELSE <<1>>
         IN  RoundF(BAdd(BShl(q, 1), st), a.e - b.e - (MantBits + 3) - 1)

\* math.sqrt of a non-negative integer
FSqrtInt(n) ==
    IF n = 0 THEN FZero
    ELSE LET sq == BShl(BFromInt(n), 2 * (MantBits + 1))
             s  == BSqrtFloor(sq)
             st == IF BMul(s, s) = sq THEN <<>> ELSE <<1>>
         IN  RoundF(BAdd(BShl(s, 1), st), -(MantBits + 1) - 1)

\* the float written p/q in decimal (q a power of ten), e.g. 0.18 is FDecimal(18, 100)
FDecimal(p, q) ==
    IF p < 0 THEN [FDiv(FFromInt(-p), FFromInt(q)) EXCEPT !.neg = TRUE]
    ELSE FDiv(FFromInt(p), FFromInt(q))

\* the integer nearest to 1000 * x (ties to even), for a non-negative float x
RoundMilli(x) ==
    IF x.m = <<>> THEN 0
    ELSE LET n == BMulSmall(x.m, 1000)
         IN  IF x.e >= 0 THEN BToInt(BShl(n, x.e))
             ELSE LET s    == -x.e
                      q    == BShr(n, s)
                      half == BIsOdd(BShr(n, s - 1))
                      rest == BShl(BShr(n, s - 1), s - 1) # n
                      up   == half /\ (rest \/ BIsOdd(q))
                  IN  BToInt(q) + (IF up THEN 1 ELSE 0)

(***************************************************************************)
(* Text: a str is a sequence of one-character strings.                     *)
(***************************************************************************)
LowerLetters ==
    <<"a", "b", "c", "d", "e", "f", "g", "h", "i", "j", "k", "l", "m",
      "n", "o", "p", "q", "r", "s", "t", "u", "v", "w", "x", "y", "z">>
UpperLetters ==
    <<"A", "B", "C", "D", "E", "F", "G", "H", "I", "J", "K", "L", "M",
      "N", "O", "P", "Q", "R", "S", "T", "U", "V", "W", "X", "Y", "Z">>
AccentedLetters == {"à", "è", "é", "ù"}
Digits == {"0", "1", "2", "3", "4", "5", "6", "7", "8", "9"}

\* str.isspace() for the characters of the model
Whitespace == {" ", "\n", "\t"}

\* the characters the regular expression \w matches
WordChars ==
    {LowerLetters[k] : k \in DOMAIN LowerLetters}
    \cup {UpperLetters[k] : k \in DOMAIN UpperLetters}
    \cup AccentedLetters \cup Digits \cup {"_"}

LowerChar(c) ==
    IF \E k \in DOMAIN UpperLetters : UpperLetters[k] = c
    THEN LowerLetters[CHOOSE k \in DOMAIN UpperLetters : UpperLetters[k] = c]
    ELSE c

\* str.lower()
Lower(t) == [k \in DOMAIN t |-> LowerChar(t[k])]

\* str.strip()
Strip(t) ==
    LET keep == {k \in DOMAIN t : t[k] \notin Whitespace}
    IN  IF keep = {} THEN <<>>
        ELSE SubSeq(t, CHOOSE k \in keep : \A j \in keep : k <= j,
                       CHOOSE k \in keep : \A j \in keep : k >= j)

\* sub in t
Contains(t, sub) ==
    \E k \in 0..(Len(t) - Len(sub)) : SubSeq(t, k + 1, k + Len(sub)) = sub

\* t[:n]
Prefix(t, n) == SubSeq(t, 1, IF n < Len(t) THEN n ELSE Len(t))

\* variant: t.split(' ', 1)[0]
SplitSpaceHead(t) ==
    LET sp == {k \in DOMAIN t : t[k] = " "}
    IN  IF sp = {} THEN t
        ELSE SubSeq(t, 1, (CHOOSE k \in sp : \A j \in sp : k <= j) - 1)

\* t.rsplit(' ', 1)[0]
RSplitSpaceHead(t) ==
    LET sp == {k \in DOMAIN t : t[k] = " "}
    IN  IF sp = {} THEN t
        ELSE SubSeq(t, 1, (CHOOSE k \in sp : \A j \in sp : k >= j) - 1)

\* t.split('\n\n')
RECURSIVE SplitBlankLine(_)
SplitBlankLine(t) ==
    LET at == {k \in 1..(Len(t) - 1) : t[k] = "\n" /\ t[k + 1] = "\n"}
    IN  IF at = {} THEN <<t>>
        ELSE LET k == CHOOSE a \in at : \A b \in at : a <= b
             IN  <<SubSeq(t, 1, k - 1)>> \o SplitBlankLine(SubSeq(t, k + 2, Len(t)))

\* re.findall(r'\w+', t): the maximal runs of word characters, left to right
RECURSIVE FindAllWords(_)
FindAllWords(t) ==
    LET starts == {k \in DOMAIN t : t[k] \in WordChars}
    IN  IF starts = {} THEN <<>>
        ELSE LET b    == CHOOSE k \in starts : \A j \in starts : k <= j
                 ends == {k \in b..Len(t) : k = Len(t) \/ t[k + 1] \notin WordChars}
                 e    == CHOOSE k \in ends : \A j \in ends : k <= j
             IN  <<SubSeq(t, b, e)>> \o FindAllWords(SubSeq(t, e + 1, Len(t)))

(***************************************************************************)
(* app/config.py                                                           *)
(***************************************************************************)
BOOST_KEYWORDS ==
    << <<"l", "i", "n", "u", "x">>,
       <<"r", "e", "c", "o", "n", "d", "i", "t", "i", "o", "n", "n", "e", "m", "e", "n", "t">>,
       <<"n", "i", "r", "d">>,
       <<"p", "r", "i", "m", "t", "u", "x">>,
       <<"t", "c", "h", "a", "p">>,
       <<"é", "c", "o", "l", "o", "g", "i", "q", "u", "e">>,
       <<"l", "i", "b", "r", "e">>,
       <<"i", "n", "c", "l", "u", "s", "i", "f">>,
       <<"d", "u", "r", "a", "b", "l", "e">>,
       <<"o", "b", "s", "o", "l", "e", "s", "c", "e", "n", "c", "e">>,
       <<"f", "o", "r", "g", "e">> >>

(***************************************************************************)
(* SemanticSearch: a term vector (Counter) is a function from the tokens   *)
(* present to their counts.                                                *)
(***************************************************************************)
None == [none |-> TRUE]

stopwords ==
    {<<"l", "e">>, <<"l", "a">>, <<"l", "e", "s">>, <<"d", "e">>, <<"d", "u">>, <<"d", "e", "s">>,
     <<"u", "n">>, <<"u", "n", "e">>, <<"e", "t">>, <<"o", "u">>, <<"à">>, <<"a", "u">>,
     <<"a", "u", "x">>, <<"e", "n">>, <<"d", "a", "n", "s">>, <<"s", "u", "r">>,
     <<"p", "o", "u", "r">>, <<"p", "a", "r">>, <<"a", "v", "e", "c">>, <<"s", "a", "n", "s">>,
     <<"s", "o", "u", "s">>, <<"c", "h", "e", "z">>, <<"c", "e">>, <<"c", "e", "t", "t", "e">>,
     <<"c", "e", "s">>, <<"s", "o", "n">>, <<"s", "a">>, <<"s", "e", "s">>, <<"m", "o", "n">>,
     <<"m", "a">>, <<"m", "e", "s">>, <<"t", "o", "n">>, <<"t", "a">>, <<"t", "e", "s">>,
     <<"j", "e">>, <<"t", "u">>, <<"i", "l">>, <<"e", "l", "l", "e">>, <<"n", "o", "u", "s">>,
     <<"v", "o", "u", "s">>, <<"i", "l", "s">>, <<"e", "l", "l", "e", "s">>, <<"q", "u", "i">>,
     <<"q", "u", "e">>, <<"q", "u", "o", "i">>, <<"d", "o", "n", "t">>, <<"o", "ù">>,
     <<"q", "u", "a", "n", "d">>, <<"c", "o", "m", "m", "e", "n", "t">>, <<"m", "a", "i", "s">>,
     <<"e", "s", "t">>, <<"s", "o", "n", "t">>, <<"p", "a", "s">>, <<"p", "l", "u", "s">>,
     <<"t", "r", "è", "s">>}

\* Counter(words)
Counter(words) ==
    [w \in {words[k] : k \in DOMAIN words} |->
        Cardinality({k \in DOMAIN words : words[k] = w})]

\* variant: "len(w) >= 2"
_clean_and_vectorize_Ge2(text) ==
    LET words == FindAllWords(Lower(text))
        kept  == SelectSeq(words, LAMBDA w : w \notin stopwords /\ Len(w) >= 2)
    IN  Counter(kept)

\* text.lower(), re.findall(r'\w+', text), the filter and Counter(words)
_clean_and_vectorize(text) ==
    LET words == FindAllWords(Lower(text))
        kept  == SelectSeq(words, LAMBDA w : w \notin stopwords /\ Len(w) > 2)
    IN  Counter(kept)

RECURSIVE SumOver(_, _)
SumOver(f, dom) ==
    IF dom = {} THEN 0
    ELSE LET w == CHOOSE v \in dom : TRUE IN f[w] + SumOver(f, dom \ {w})

\* math.sqrt, computed once for the small sums of squares
SqrtMemo == 64
SqrtTable == [n \in 0..SqrtMemo |-> FSqrtInt(n)]
Sqrt(n) == IF n <= SqrtMemo THEN SqrtTable[n] ELSE FSqrtInt(n)

\* what a float division by zero raises
ZeroDivisionError == [error |-> "ZeroDivisionError"]

\* variant: neither "if not common" nor "if denominator != 0"
_cosine_similarity_Unguarded(vec1, vec2) ==
    LET common      == DOMAIN vec1 \cap DOMAIN vec2
        numerator   == SumOver([w \in common |-> vec1[w] * vec2[w]], common)
        denominator ==
            FMul(Sqrt(SumOver([w \in DOMAIN vec1 |-> vec1[w] * vec1[w]], DOMAIN vec1)),
                 Sqrt(SumOver([w \in DOMAIN vec2 |-> vec2[w] * vec2[w]], DOMAIN vec2)))
    IN  IF denominator # FZero THEN FDiv(FFromInt(numerator), denominator)
        ELSE ZeroDivisionError

\* variant: the sums of squares are multiplied without math.sqrt
_cosine_similarity_NoSqrt(vec1, vec2) ==
    LET common == DOMAIN vec1 \cap DOMAIN vec2
    IN  IF common = {} THEN FZero
        ELSE LET numerator   == SumOver([w \in common |-> vec1[w] * vec2[w]], common)
                 denominator ==
                     FMul(FFromInt(SumOver([w \in DOMAIN vec1 |-> vec1[w] * vec1[w]], DOMAIN vec1)),
                          FFromInt(SumOver([w \in DOMAIN vec2 |-> vec2[w] * vec2[w]], DOMAIN vec2)))
             IN  IF denominator # FZero THEN FDiv(FFromInt(numerator), denominator)
                 ELSE FZero

\* variant: the denominator is the squared norm of the first vector
_cosine_similarity_OneNorm(vec1, vec2) ==
    LET common == DOMAIN vec1 \cap DOMAIN vec2
    IN  IF common = {} THEN FZero
        ELSE LET numerator   == SumOver([w \in common |-> vec1[w] * vec2[w]], common)
                 denominator ==
                     FMul(Sqrt(SumOver([w \in DOMAIN vec1 |-> vec1[w] * vec1[w]], DOMAIN vec1)),
                          Sqrt(SumOver([w \in DOMAIN vec1 |-> vec1[w] * vec1[w]], DOMAIN vec1)))
             IN  IF denominator # FZero THEN FDiv(FFromInt(numerator), denominator)
                 ELSE FZero

_cosine_similarity(vec1, vec2) ==
    LET common == DOMAIN vec1 \cap DOMAIN vec2
    IN  IF common = {} THEN FZero
        ELSE LET numerator   == SumOver([w \in common |-> vec1[w] * vec2[w]], common)
                 denominator ==
                     FMul(Sqrt(SumOver([w \in DOMAIN vec1 |-> vec1[w] * vec1[w]], DOMAIN vec1)),
                          Sqrt(SumOver([w \in DOMAIN vec2 |-> vec2[w] * vec2[w]], DOMAIN vec2)))
             IN  IF denominator # FZero THEN FDiv(FFromInt(numerator), denominator)
                 ELSE FZero

(***************************************************************************)
(* TextChunker                                                             *)
(***************************************************************************)
CHUNK_SIZE == 1000
CHUNK_OVERLAP == 200

\* TextChunker(chunk_size, chunk_overlap); encoding is None when tiktoken cannot
\* be loaded, the branch modelled here (the codec itself is outside the repository)
TextChunker(chunk_size, chunk_overlap) ==
    [chunk_size |-> chunk_size, chunk_overlap |-> chunk_overlap, encoding |-> None]

count_tokens(self, text) == Len(text) \div 4

NewChunk(self, chunk_id, current_chunk, source_url, source_title) ==
    [chunk_id     |-> chunk_id,
     text         |-> Strip(current_chunk),
     token_count  |-> count_tokens(self, current_chunk),
     source_url   |-> source_url,
     source_title |-> source_title]

\* variant: blank paragraphs are not skipped
ChunkParagraph_KeepsBlank(self, st, para, source_url, source_title) ==
    IF Len(st.current_chunk) + Len(para) <= self.chunk_size
    THEN [st EXCEPT !.current_chunk = @ \o para \o <<"\n", "\n">>]
    ELSE [chunks        |-> IF st.current_chunk # <<>>
                            THEN Append(st.chunks,
                                        NewChunk(self, st.chunk_id, st.current_chunk,
                                                 source_url, source_title))
                            ELSE st.chunks,
          chunk_id      |-> IF st.current_chunk # <<>> THEN st.chunk_id + 1 ELSE st.chunk_id,
          current_chunk |-> para \o <<"\n", "\n">>]

\* variant: "if len(para) <= self.chunk_size"
ChunkParagraph_IgnoresBuffer(self, st, para, source_url, source_title) ==
    IF Strip(para) = <<>> THEN st
    ELSE IF Len(para) <= self.chunk_size
    THEN [st EXCEPT !.current_chunk = @ \o para \o <<"\n", "\n">>]
    ELSE [chunks        |-> IF st.current_chunk # <<>>
                            THEN Append(st.chunks,
                                        NewChunk(self, st.chunk_id, st.current_chunk,
                                                 source_url, source_title))
                            ELSE st.chunks,
          chunk_id      |-> IF st.current_chunk # <<>> THEN st.chunk_id + 1 ELSE st.chunk_id,
          current_chunk |-> para \o <<"\n", "\n">>]

\* variant: the paragraph that does not fit is not carried into the next chunk
ChunkParagraph_Dropped(self, st, para, source_url, source_title) ==
    IF Strip(para) = <<>> THEN st
    ELSE IF Len(st.current_chunk) + Len(para) <= self.chunk_size
    THEN [st EXCEPT !.current_chunk = @ \o para \o <<"\n", "\n">>]
    ELSE [chunks        |-> IF st.current_chunk # <<>>
                            THEN Append(st.chunks,
                                        NewChunk(self, st.chunk_id, st.current_chunk,
                                                 source_url, source_title))
                            ELSE st.chunks,
          chunk_id      |-> IF st.current_chunk # <<>> THEN st.chunk_id + 1 ELSE st.chunk_id,
          current_chunk |-> <<>>]

\* the last n characters of s
LastChars(s, n) == SubSeq(s, IF Len(s) > n THEN Len(s) - n + 1 ELSE 1, Len(s))

\* variant: the buffer after a flush starts with the last chunk_overlap characters
\* of the flushed one
ChunkParagraph_Overlap(self, st, para, source_url, source_title) ==
    IF Strip(para) = <<>> THEN st
    ELSE IF Len(st.current_chunk) + Len(para) <= self.chunk_size
    THEN [st EXCEPT !.current_chunk = @ \o para \o <<"\n", "\n">>]
    ELSE [chunks        |-> IF st.current_chunk # <<>>
                            THEN Append(st.chunks,
                                        NewChunk(self, st.chunk_id, st.current_chunk,
                                                 source_url, source_title))
                            ELSE st.chunks,
          chunk_id      |-> IF st.current_chunk # <<>> THEN st.chunk_id + 1 ELSE st.chunk_id,
          current_chunk |-> LastChars(st.current_chunk, self.chunk_overlap)
                                \o para \o <<"\n", "\n">>]

\* variant: "if len(current_chunk) + len(para) < self.chunk_size"
ChunkParagraph_Lt(self, st, para, source_url, source_title) ==
    IF Strip(para) = <<>> THEN st
    ELSE IF Len(st.current_chunk) + Len(para) < self.chunk_size
    THEN [st EXCEPT !.current_chunk = @ \o para \o <<"\n", "\n">>]
    ELSE [chunks        |-> IF st.current_chunk # <<>>
                            THEN Append(st.chunks,
                                        NewChunk(self, st.chunk_id, st.current_chunk,
                                                 source_url, source_title))
                            ELSE st.chunks,
          chunk_id      |-> IF st.current_chunk # <<>> THEN st.chunk_id + 1 ELSE st.chunk_id,
          current_chunk |-> para \o <<"\n", "\n">>]

\* variant: chunk_id is not incremented after a flush
ChunkParagraph_KeepsId(self, st, para, source_url, source_title) ==
    IF Strip(para) = <<>> THEN st
    ELSE IF Len(st.current_chunk) + Len(para) <= self.chunk_size
    THEN [st EXCEPT !.current_chunk = @ \o para \o <<"\n", "\n">>]
    ELSE [chunks        |-> IF st.current_chunk # <<>>
                            THEN Append(st.chunks,
                                        NewChunk(self, st.chunk_id, st.current_chunk,
                                                 source_url, source_title))
                            ELSE st.chunks,
          chunk_id      |-> st.chunk_id,
          current_chunk |-> para \o <<"\n", "\n">>]

\* one iteration of the loop over paragraphs; st holds the locals
\* chunks, current_chunk and chunk_id
ChunkParagraph(self, st, para, source_url, source_title) ==
    IF Strip(para) = <<>> THEN st
    ELSE IF Len(st.current_chunk) + Len(para) <= self.chunk_size
    THEN [st EXCEPT !.current_chunk = @ \o para \o <<"\n", "\n">>]
    ELSE [chunks        |-> IF st.current_chunk # <<>>
                            THEN Append(st.chunks,
                                        NewChunk(self, st.chunk_id, st.current_chunk,
                                                 source_url, source_title))
                            ELSE st.chunks,
          chunk_id      |-> IF st.current_chunk # <<>> THEN st.chunk_id + 1 ELSE st.chunk_id,
          current_chunk |-> para \o <<"\n", "\n">>]

RECURSIVE ChunkParagraphs(_, _, _, _, _)
ChunkParagraphs(self, st, paragraphs, source_url, source_title) ==
    IF paragraphs = <<>> THEN st
    ELSE ChunkParagraphs(self,
                         ChunkParagraph(self, st, Head(paragraphs), source_url, source_title),
                         Tail(paragraphs), source_url, source_title)

chunk_text(self, text, source_url, source_title) ==
    IF text = <<>> THEN <<>>
    ELSE LET st == ChunkParagraphs(self,
                                   [chunks |-> <<>>, current_chunk |-> <<>>, chunk_id |-> 0],
                                   SplitBlankLine(text), source_url, source_title)
         IN  IF st.current_chunk # <<>>
             THEN Append(st.chunks,
                         NewChunk(self, st.chunk_id, st.current_chunk, source_url, source_title))
             ELSE st.chunks

(***************************************************************************)
(* Inputs of the retrieval pipeline                                        *)
(***************************************************************************)
linux == <<"l", "i", "n", "u", "x">>
libre == <<"l", "i", "b", "r", "e">>
durable == <<"d", "u", "r", "a", "b", "l", "e">>
forge == <<"f", "o", "r", "g", "e">>
reconditionnement ==
    <<"r", "e", "c", "o", "n", "d", "i", "t", "i", "o", "n", "n", "e", "m", "e", "n", "t">>
SP == <<" ">>
BlankLine == <<"\n", "\n">>

TextLinux == linux \o SP \o reconditionnement \o SP \o durable
TextOnce == durable \o SP \o libre
TextThrice == TextOnce \o SP \o TextOnce \o SP \o TextOnce
TextTwoParagraphs == linux \o SP \o forge \o BlankLine \o durable \o SP \o libre

Docs ==
    << [url |-> "url1", title |-> "title1", text |-> TextLinux],
       [url |-> "url2", title |-> "title2", text |-> TextOnce],
       [url |-> "url3", title |-> "title3", text |-> TextThrice],
       [url |-> "url4", title |-> "title4", text |-> TextTwoParagraphs] >>

MaxDocs == 2

RECURSIVE SeqsUpTo(_, _)
SeqsUpTo(S, n) ==
    IF n = 0 THEN {<<>>}
    ELSE LET shorter == SeqsUpTo(S, n - 1)
         IN  shorter \cup {Append(q, x) : q \in shorter, x \in S}

DocumentLists == SeqsUpTo({Docs[k] : k \in DOMAIN Docs}, MaxDocs) \ {<<>>}

SmallChunkSize == 15
ChunkSizes == {SmallChunkSize, CHUNK_SIZE}

KeywordLists == {<<>>, <<linux>>, BOOST_KEYWORDS}

Queries ==
    { <<>>,
      <<" ", "\n">>,
      linux,
      linux \o SP \o libre,
      durable,
      <<"L", "e", "s", " ", "P", "C">>,
      <<"L", "i", "n", "u", "x", "i", "e", "n">> }

\* thresholds in thousandths: negative, zero, the configured 0.12, one boost,
\* and the two sides of 1/sqrt(3) + 0.18
ThresholdsMilli == {-100, 0, 120, 180, 757, 758}
MAX_CONTEXT_LENGTH == 600
ContextLengths == {3, 13, 23}
CallArgs ==
    {<<t, MAX_CONTEXT_LENGTH>> : t \in ThresholdsMilli} \cup {<<0, n>> : n \in ContextLengths}

(***************************************************************************)
(* Float results computed once for the inputs above                        *)
(***************************************************************************)
ThresholdTable == [t \in ThresholdsMilli |-> FDecimal(t, 1000)]

ChunkTexts ==
    UNION { {c.text : c \in
               {chunk_text(TextChunker(size, CHUNK_OVERLAP), Docs[k].text, "", "")[j] :
                  j \in DOMAIN chunk_text(TextChunker(size, CHUNK_OVERLAP), Docs[k].text, "", "")}} :
            size \in ChunkSizes, k \in DOMAIN Docs }

\* the vectors of the chunk texts of the model, computed once
VectorTable == [t \in ChunkTexts |-> _clean_and_vectorize(t)]

\* self._clean_and_vectorize(text), looked up where it was computed before
Vectorized(text) ==
    IF text \in DOMAIN VectorTable THEN VectorTable[text] ELSE _clean_and_vectorize(text)

\* variant: the vectors are stored last chunk first
_index_chunks_Reversed(chunks) ==
    [k \in DOMAIN chunks |-> Vectorized(chunks[Len(chunks) + 1 - k].text)]

\* self.vectors = [self._clean_and_vectorize(chunk["text"]) for chunk in self.chunks]
_index_chunks(chunks) == [k \in DOMAIN chunks |-> Vectorized(chunks[k].text)]

\* SemanticSearch(chunks, boost_keywords): the instance's attributes
SemanticSearch(chunks, boost_keywords) ==
    [chunks |-> chunks, boost_keywords |-> boost_keywords, vectors |-> _index_chunks(chunks)]

VectorPairs ==
    {<<_clean_and_vectorize(q), _clean_and_vectorize(t)>> : q \in Queries, t \in ChunkTexts}

CosineTable == [p \in VectorPairs |-> _cosine_similarity(p[1], p[2])]

\* variant: score += 0.15
BoostIncrement_15 == FDecimal(15, 100)

BoostIncrement == FDecimal(18, 100)

\* variant: the boost is added only to a chunk that shares a token with the query
RECURSIVE AddBoosts_OnlyMatched(_, _, _)
AddBoosts_OnlyMatched(cosine, boost_keywords, lowered) ==
    IF boost_keywords = <<>> \/ FCmp(cosine, FZero) = 0 THEN cosine
    ELSE AddBoosts_OnlyMatched(IF Contains(lowered, Head(boost_keywords))
                               THEN FAdd(cosine, BoostIncrement) ELSE cosine,
                               Tail(boost_keywords), lowered)

\* score += 0.18, once per boost keyword found in the lower-cased query
RECURSIVE AddBoosts(_, _, _)
AddBoosts(cosine, boost_keywords, lowered) ==
    IF boost_keywords = <<>> THEN cosine
    ELSE AddBoosts(IF Contains(lowered, Head(boost_keywords))
                   THEN FAdd(cosine, BoostIncrement) ELSE cosine,
                   Tail(boost_keywords), lowered)

ScoreTable ==
    [p \in {<<CosineTable[v], kws, Lower(q)>> : v \in VectorPairs, kws \in KeywordLists, q \in Queries} |->
        AddBoosts(p[1], p[2], p[3])]

\* variant: the keyword "linux" is looked up in the chunk instead of the query
ChunkScore_InChunk(qvector, lowered, chunk_vector, boost_keywords) ==
    ScoreTable[<<CosineTable[<<qvector, chunk_vector>>], boost_keywords,
                 IF linux \in DOMAIN chunk_vector THEN linux ELSE <<>> >>]

\* the score of one chunk: the body of the loop of search before the comparison
ChunkScore(qvector, lowered, chunk_vector, boost_keywords) ==
    ScoreTable[<<CosineTable[<<qvector, chunk_vector>>], boost_keywords, lowered>>]

(***************************************************************************)
(* SemanticSearch.search                                                   *)
(***************************************************************************)
Ellipsis == <<".", ".", ".">>

FallbackContext ==
    <<"L", "a", " ", "d", "é", "m", "a", "r", "c", "h", "e", " ", "N", "I", "R", "D", " ", "p",
      "r", "o", "m", "e", "u", "t", " ", "u", "n", " ", "n", "u", "m", "é", "r", "i", "q", "u",
      "e", " ", "I", "n", "c", "l", "u", "s", "i", "f", ",", " ", "R", "e", "s", "p", "o", "n",
      "s", "a", "b", "l", "e", " ", "e", "t", " ", "D", "u", "r", "a", "b", "l", "e", " ", "d",
      "a", "n", "s", " ", "l", "e", "s", " ", "é", "t", "a", "b", "l", "i", "s", "s", "e", "m",
      "e", "n", "t", "s", " ", "s", "c", "o", "l", "a", "i", "r", "e", "s", " ", "v", "i", "a",
      " ", "L", "i", "n", "u", "x", ",", " ", "l", "e", " ", "r", "e", "c", "o", "n", "d", "i",
      "t", "i", "o", "n", "n", "e", "m", "e", "n", "t", " ", "e", "t", " ", "l", "e", "s", " ",
      "l", "o", "g", "i", "c", "i", "e", "l", "s", " ", "l", "i", "b", "r", "e", "s", ".">>

\* the record returned when nothing is found
Fallback ==
    [context      |-> FallbackContext,
     confidence   |-> 0,
     chunk_id     |-> -1,
     source_url   |-> "https://nird.forge.apps.education.fr/",
     source_title |-> "Accueil NIRD",
     found        |-> FALSE]

\* dict.get(key, default)
Get(dict, key, default) == IF key \in DOMAIN dict THEN dict[key] ELSE default

\* variant: "if len(context) >= max_context_length"
Truncate_Ge(context, limit) ==
    IF Len(context) >= limit
    THEN RSplitSpaceHead(Prefix(context, limit)) \o Ellipsis
    ELSE context

\* the truncation of the context
Truncate(context, limit) ==
    IF Len(context) > limit
    THEN RSplitSpaceHead(Prefix(context, limit)) \o Ellipsis
    ELSE context

\* variant: "if score >= best_score"
Improves_Ge(new_score, bscore) == FCmp(new_score, bscore) >= 0

\* "if score > best_score"
Improves(new_score, bscore) == FGt(new_score, bscore)

\* variant: "best_score >= threshold"
AboveThreshold_Ge(bscore, thr) == FCmp(bscore, thr) >= 0

\* "best_score > threshold"
AboveThreshold(bscore, thr) == FGt(bscore, thr)

\* the return statement of search; confidence, round(best_score, 3), is held in
\* thousandths: k stands for the float nearest to k / 1000
SearchResult(bscore, bchunk, bindex, thr, limit) ==
    IF AboveThreshold(bscore, thr) /\ bchunk # None
    THEN [context      |-> Truncate(Strip(bchunk.text), limit),
          confidence   |-> RoundMilli(bscore),
          chunk_id     |-> Get(bchunk, "chunk_id", bindex),
          source_url   |-> Get(bchunk, "source_url", ""),
          source_title |-> Get(bchunk, "source_title", ""),
          found        |-> TRUE]
    ELSE Fallback

\* variant: "if not query"
IsBlank_NoStrip(q) == q = <<>>

\* "if not query.strip()"
IsBlank(q) == Strip(q) = <<>>

\* what search computes from the query alone, once per query of the model
QueryTable ==
    [q \in Queries |->
        [blank |-> IsBlank(q), vector |-> _clean_and_vectorize(q), lower |-> Lower(q)]]

(***************************************************************************)
(* The state machine: chunk_documents, then SemanticSearch(...), then any  *)
(* number of search calls, each run statement by statement.                *)
(***************************************************************************)
\* nothing runs outside the chunker, the index and the search call
\* the API is not running
NoApi ==
    /\ heap = <<>>
    /\ threads = <<>>
    /\ groq_client = None
    /\ data_file = None

NoUnits ==
    /\ vectorize_call = None
    /\ page_text = None
    /\ ask_call = None

NoOthers == cosine_call = None /\ NoApi /\ NoUnits

NoCall ==
    /\ query = <<>>
    /\ threshold = FZero
    /\ max_context_length = 0
    /\ query_vector = <<>>
    /\ query_lower = <<>>
    /\ best_score = FZero
    /\ best_chunk = None
    /\ best_index = -1
    /\ i = 0
    /\ score = FZero
    /\ result = None

Init ==
    /\ chunker \in {TextChunker(size, CHUNK_OVERLAP) : size \in ChunkSizes}
    /\ documents \in DocumentLists
    /\ all_chunks = <<>>
    /\ doc_index = 1
    /\ semantic_search = None
    /\ pc = "chunk_documents"
    /\ NoCall
    /\ NoOthers

\* chunk_documents: one iteration of the loop over documents
ChunkDocument ==
    /\ pc = "chunk_documents"
    /\ doc_index <= Len(documents)
    /\ LET doc == documents[doc_index]
       IN  all_chunks' = all_chunks \o chunk_text(chunker, doc.text, doc.url, doc.title)
    /\ doc_index' = doc_index + 1
    /\ UNCHANGED <<chunker, documents, semantic_search, pc, query, threshold,
                   max_context_length, query_vector, query_lower, best_score, best_chunk,
                   best_index, i, score, result>>
    /\ UNCHANGED others

\* chunk_documents returns and the index is built over its chunks
Construct(boost_keywords) ==
    /\ pc = "chunk_documents"
    /\ doc_index > Len(documents)
    /\ semantic_search' = SemanticSearch(all_chunks, boost_keywords)
    /\ pc' = "idle"
    /\ UNCHANGED <<chunker, documents, all_chunks, doc_index, query, threshold,
                   max_context_length, query_vector, query_lower, best_score, best_chunk,
                   best_index, i, score, result>>
    /\ UNCHANGED others

\* search is called: the blank-query return, or the statements before the loop
SearchCall(q, thr, limit) ==
    /\ pc = "idle"
    /\ query' = q
    /\ threshold' = ThresholdTable[thr]
    /\ max_context_length' = limit
    /\ best_score' = FZero
    /\ best_chunk' = None
    /\ best_index' = -1
    /\ i' = 0
    /\ score' = FZero
    /\ result' = None
    /\ IF QueryTable[q].blank
       THEN /\ pc' = "returned"
            /\ query_vector' = <<>>
            /\ query_lower' = <<>>
       ELSE /\ pc' = "scan"
            /\ query_vector' = QueryTable[q].vector
            /\ query_lower' = QueryTable[q].lower
    /\ UNCHANGED <<chunker, documents, all_chunks, doc_index, semantic_search>>
    /\ UNCHANGED others

\* one iteration of the loop over the vectors
SearchScore ==
    /\ pc = "scan"
    /\ i < Len(semantic_search.vectors)
    /\ LET chunk_vector == semantic_search.vectors[i + 1]
           new_score    == ChunkScore(query_vector, query_lower, chunk_vector,
                                      semantic_search.boost_keywords)
       IN  /\ score' = new_score
           /\ IF Improves(new_score, best_score)
              THEN /\ best_score' = new_score
                   /\ best_chunk' = semantic_search.chunks[i + 1]
                   /\ best_index' = i
              ELSE UNCHANGED <<best_score, best_chunk, best_index>>
    /\ i' = i + 1
    /\ UNCHANGED <<chunker, documents, all_chunks, doc_index, semantic_search, pc, query,
                   threshold, max_context_length, query_vector, query_lower, result>>
    /\ UNCHANGED others

\* the loop is over: the result is built and returned
SearchReturn ==
    /\ pc = "scan"
    /\ i = Len(semantic_search.vectors)
    /\ result' = SearchResult(best_score, best_chunk, best_index, threshold, max_context_length)
    /\ pc' = "returned"
    /\ UNCHANGED <<chunker, documents, all_chunks, doc_index, semantic_search, query,
                   threshold, max_context_length, query_vector, query_lower, best_score,
                   best_chunk, best_index, i, score>>
    /\ UNCHANGED others

\* the caller has the result: the locals of the call are gone and the index
\* is ready for the next call
SearchDone ==
    /\ pc = "returned"
    /\ pc' = "idle"
    /\ query' = <<>>
    /\ threshold' = FZero
    /\ max_context_length' = 0
    /\ query_vector' = <<>>
    /\ query_lower' = <<>>
    /\ best_score' = FZero
    /\ best_chunk' = None
    /\ best_index' = -1
    /\ i' = 0
    /\ score' = FZero
    /\ result' = None
    /\ UNCHANGED <<chunker, documents, all_chunks, doc_index, semantic_search>>
    /\ UNCHANGED others

Next ==
    \/ ChunkDocument
    \/ \E boost_keywords \in KeywordLists : Construct(boost_keywords)
    \/ \E q \in Queries, a \in CallArgs : SearchCall(q, a[1], a[2])
    \/ SearchScore
    \/ SearchReturn
    \/ SearchDone

Spec == Init /\ [][Next]_vars

(***************************************************************************)
(* Properties of search                                                    *)
(***************************************************************************)
Answered == pc = "returned" /\ ~QueryTable[query].blank

Indexed == DOMAIN semantic_search.vectors

\* the boosted score and the plain cosine of the k-th indexed chunk for the
\* query of the current call
ScoreOf(k) ==
    ChunkScore(query_vector, query_lower, semantic_search.vectors[k],
               semantic_search.boost_keywords)

CosineOf(k) == CosineTable[<<query_vector, semantic_search.vectors[k]>>]

\* C1: search answers found = TRUE exactly when a chunk was selected and the
\* best boosted score is strictly greater than the threshold; every other
\* answer to a non-blank query is the fixed fallback record.
C1_FoundIffAboveThreshold ==
    Answered =>
        /\ result.found <=> (best_chunk # None /\ FGt(best_score, threshold))
        /\ result.found <=>
              \E k \in Indexed : FGt(ScoreOf(k), FZero) /\ FGt(ScoreOf(k), threshold)
        /\ ~result.found => result = Fallback

\* a chunk was selected with a score equal to the threshold: fallback
C1_Witness ==
    /\ Answered
    /\ best_chunk # None
    /\ FCmp(best_score, threshold) = 0
    /\ result = Fallback

\* C2: a non-blank query that shares no token with any indexed chunk and
\* contains no boost keyword gets found = FALSE and chunk_id = -1 whatever
\* the threshold, negative thresholds included.
C2_NoMatchIsFallback ==
    ( /\ Answered
      /\ \A k \in Indexed : DOMAIN semantic_search.vectors[k] \cap DOMAIN query_vector = {}
      /\ \A j \in DOMAIN semantic_search.boost_keywords :
            ~Contains(Lower(query), semantic_search.boost_keywords[j]) )
    => (result.found = FALSE /\ result.chunk_id = -1)

C2_Witness ==
    /\ Answered
    /\ threshold.neg
    /\ Indexed # {}
    /\ DOMAIN query_vector # {}
    /\ \A k \in Indexed : DOMAIN semantic_search.vectors[k] \cap DOMAIN query_vector = {}
    /\ \A j \in DOMAIN semantic_search.boost_keywords :
          ~Contains(Lower(query), semantic_search.boost_keywords[j])
    /\ result.found = FALSE
    /\ result.chunk_id = -1

\* the chunks whose boosted score equals the best score
Tied == {k \in Indexed : FCmp(ScoreOf(k), best_score) = 0}

\* C3: when two or more chunks attain the same top score, the answer carries
\* the lowest chunk_id among the tied chunks, for every index, one built by
\* chunk_documents from several documents included.
C3_LowestIdWins ==
    (Answered /\ result.found /\ Cardinality(Tied) >= 2) =>
        \A k \in Tied : result.chunk_id <= semantic_search.chunks[k].chunk_id

\* C4: within one call of chunk_documents the chunk_id values are pairwise
\* distinct and follow insertion order.
C4_IdsDistinctInOrder ==
    \A a, b \in DOMAIN all_chunks :
        a < b => all_chunks[a].chunk_id < all_chunks[b].chunk_id

\* the boost keywords of the index that occur in the lower-cased query
MatchingKeywords ==
    {j \in DOMAIN semantic_search.boost_keywords :
        Contains(Lower(query), semantic_search.boost_keywords[j])}

\* 0.18 times k, as a decimal
BoostTimes == [k \in 0..3 |-> FDecimal(18 * k, 100)]

\* no chunk of the index shares a token with the query
NoSharedToken ==
    \A k \in Indexed : DOMAIN semantic_search.vectors[k] \cap DOMAIN query_vector = {}

RECURSIVE ChunksBefore(_)
ChunksBefore(d) ==
    IF d <= 1 THEN 0
    ELSE ChunksBefore(d - 1)
             + Len(chunk_text(chunker, documents[d - 1].text, documents[d - 1].url,
                              documents[d - 1].title))

\* C21: the chunks of each call of chunk_text carry chunk_id 0, 1, ..., n-1
\* in emission order, and the numbering starts again at 0 for the next
\* document whatever the calls before it emitted.
C21_IdsRestartPerCall ==
    pc = "chunk_documents" =>
        /\ Len(all_chunks) = ChunksBefore(doc_index)
        /\ \A d \in 1..(doc_index - 1) :
              \A j \in 1..(ChunksBefore(d + 1) - ChunksBefore(d)) :
                  all_chunks[ChunksBefore(d) + j].chunk_id = j - 1

\* two documents of two chunks each: the ids are 0, 1, 0, 1
C21_Witness ==
    /\ pc = "chunk_documents"
    /\ doc_index = 3
    /\ Len(all_chunks) = 4
    /\ [k \in 1..4 |-> all_chunks[k].chunk_id] = <<0, 1, 0, 1>>

\* C5: a query that is empty or only whitespace makes search return None
\* without reading a vector and without changing the index.
C5_BlankQueryReturnsNone ==
    (pc \in {"scan", "returned"} /\ \A k \in DOMAIN query : query[k] \in Whitespace) =>
        /\ pc = "returned"
        /\ result = None
        /\ i = 0
        /\ best_chunk = None
        /\ semantic_search = SemanticSearch(all_chunks, semantic_search.boost_keywords)

\* a whitespace-only query on a non-empty index
C5_Witness ==
    /\ pc = "returned"
    /\ query # <<>>
    /\ \A k \in DOMAIN query : query[k] \in Whitespace
    /\ result = None
    /\ semantic_search.chunks # <<>>

\* C6: boosting keeps the relative ranking of the chunks: one chunk scores
\* above another after boosting exactly when its cosine is the greater one.
C6_BoostKeepsRanking ==
    Answered =>
        LET boosted == [k \in Indexed |-> ScoreOf(k)]
            cosine  == [k \in Indexed |-> CosineOf(k)]
        IN  \A a, b \in Indexed :
                FGt(boosted[a], boosted[b]) <=> FGt(cosine[a], cosine[b])

\* C6, as the code has it: boosting never reverses the order of two chunks
\* and chunks with equal cosines get equal scores, but chunks with different
\* cosines may end with equal scores.
C6_BoostNeverReverses ==
    Answered =>
        LET boosted == [k \in Indexed |-> ScoreOf(k)]
            cosine  == [k \in Indexed |-> CosineOf(k)]
        IN  \A a, b \in Indexed :
                /\ FGt(boosted[a], boosted[b]) => FGt(cosine[a], cosine[b])
                /\ FCmp(cosine[a], cosine[b]) = 0 => FCmp(boosted[a], boosted[b]) = 0
                /\ FCmp(boosted[a], cosine[a]) >= 0

\* the chunk with the smaller cosine wins, its boosted score being equal
C6_Witness ==
    /\ Answered
    /\ result.found
    /\ \E a, b \in Indexed :
          /\ a < b
          /\ best_index = a - 1
          /\ FGt(CosineOf(b), CosineOf(a))
          /\ FCmp(ScoreOf(a), ScoreOf(b)) = 0
          /\ FGt(ScoreOf(a), CosineOf(a))

\* the index holds the single chunk "linux reconditionnement durable", the
\* boost keywords are ["linux"] and the query is "linux"
OneLinuxChunk ==
    /\ Answered
    /\ Len(semantic_search.chunks) = 1
    /\ semantic_search.chunks[1].text = TextLinux
    /\ semantic_search.boost_keywords = <<linux>>
    /\ query = linux

\* fl(fl(1 / fl(sqrt(1) * sqrt(3))) + 0.18) = 0.7573502691896258
OneLinuxScore ==
    FAdd(FDiv(FFromInt(1), FMul(FSqrtInt(1), FSqrtInt(3))), FDecimal(18, 100))

\* C7: in that case every threshold below 1.0 gives found = TRUE and a
\* confidence of at least 1.0.
C7_ConfidenceAtLeastOne ==
    (OneLinuxChunk /\ FGt(FFromInt(1), threshold)) =>
        (result.found /\ result.confidence >= 1000)

\* C7, as the code has it: found = TRUE exactly when the threshold is below
\* 0.7573502691896258, and the confidence is then 0.757.
C7_ConfidenceIs757 ==
    OneLinuxChunk =>
        /\ result.found <=> FGt(OneLinuxScore, threshold)
        /\ result.found => result.confidence = 757
        /\ ~result.found => result = Fallback

\* a threshold below 1.0 for which the answer is the fallback
C7_Witness ==
    /\ OneLinuxChunk
    /\ FGt(FFromInt(1), threshold)
    /\ FGt(threshold, ThresholdTable[757])
    /\ result = Fallback

\* the stripped text of the selected chunk, and the part of the answer's
\* context before the "..." marker
Stripped == Strip(best_chunk.text)

Cut == Answered /\ result.found /\ Len(Stripped) > max_context_length

Kept == SubSeq(result.context, 1, Len(result.context) - 3)

\* positions of the whitespace characters with 0-based index <= n
WhitespaceUpTo(t, n) == {k \in DOMAIN t : k <= n + 1 /\ t[k] \in Whitespace}

\* positions of the space characters among the first n characters
SpacesIn(t, n) == {k \in DOMAIN t : k <= n /\ t[k] = " "}

\* C8: a cut context ends immediately before the last whitespace character
\* at or before position max_context_length, so that no word is cut in the
\* middle and no whole word that fits within the limit is dropped.
C8_CutAtLastWhitespace ==
    Cut =>
        /\ WhitespaceUpTo(Stripped, max_context_length) # {}
        /\ \E k \in WhitespaceUpTo(Stripped, max_context_length) :
              /\ \A j \in WhitespaceUpTo(Stripped, max_context_length) : j <= k
              /\ Kept = SubSeq(Stripped, 1, k - 1)

\* C8, as the code has it: the first max_context_length characters are cut
\* immediately before their last space character, other whitespace is not a
\* cut point, and they are kept whole when they hold no space.
C8_CutAtLastSpace ==
    Cut =>
        /\ result.context = Kept \o Ellipsis
        /\ Kept = SubSeq(Stripped, 1, Len(Kept))
        /\ IF SpacesIn(Stripped, max_context_length) = {}
           THEN Len(Kept) = max_context_length
           ELSE /\ Len(Kept) + 1 \in SpacesIn(Stripped, max_context_length)
                /\ \A j \in SpacesIn(Stripped, max_context_length) : j <= Len(Kept) + 1

\* the cut drops a word that ends exactly at the limit
C8_Witness ==
    /\ Cut
    /\ Len(Stripped) > max_context_length
    /\ Stripped[max_context_length] \notin Whitespace
    /\ Stripped[max_context_length + 1] = " "
    /\ Len(Kept) < max_context_length

MaxTextLen == 6
MaxChunkSize == 4
Alphabet == {"a", "b", " ", "\n"}
\* longer documents of three paragraphs
LongTexts ==
    { <<"a", "\n", "\n", "b", "b", "\n", "\n", "a">>,
      <<"a", "\n", "\n", "b", "\n", "\n", "a", "b">>,
      <<"a", "b", "\n", "\n", " ", "a", "\n", "\n", "b">>,
      <<"a", " ", "b", "\n", "\n", "a", "\n", "\n", "b", "\n">> }
Texts == SeqsUpTo(Alphabet, MaxTextLen) \cup LongTexts

\* the overlap settings: none, a few characters, the configured one
SmallOverlap == 1
Overlaps == {0, SmallOverlap, CHUNK_OVERLAP}

InitChunk ==
    /\ chunker \in {TextChunker(size, overlap) : size \in 1..MaxChunkSize, overlap \in Overlaps}
    /\ documents \in {<<[url |-> "url1", title |-> "title1", text |-> t]>> : t \in Texts}
    /\ all_chunks = <<>>
    /\ doc_index = 1
    /\ semantic_search = None
    /\ pc = "chunk_documents"
    /\ NoCall
    /\ NoOthers

NextChunk == ChunkDocument

SpecChunk == InitChunk /\ [][NextChunk]_vars

NonBlank(p) == Strip(p) # <<>>

\* the non-blank pieces of a text between its blank-line separators
Paragraphs(t) == SelectSeq(SplitBlankLine(t), NonBlank)

\* the paragraphs of the chunk texts, in emission order
RECURSIVE ChunkedParagraphs(_)
ChunkedParagraphs(chunks) ==
    IF chunks = <<>> THEN <<>>
    ELSE Paragraphs(Head(chunks).text) \o ChunkedParagraphs(Tail(chunks))

StripEach(ps) == [k \in DOMAIN ps |-> Strip(ps[k])]

Chunked == pc = "chunk_documents" /\ Len(documents) = 1 /\ doc_index = 2

RECURSIVE OwnersFrom(_, _)
OwnersFrom(chunks, c) ==
    IF chunks = <<>> THEN <<>>
    ELSE [k \in 1..Len(Paragraphs(Head(chunks).text)) |-> c] \o OwnersFrom(Tail(chunks), c + 1)

Owners == OwnersFrom(all_chunks, 1)

\* C11: a paragraph longer than chunk_size is emitted as a chunk of its own:
\* the chunk that holds it holds no other paragraph, whatever precedes or
\* follows it in the document.
C11_OversizedParagraphAlone ==
    Chunked =>
        LET ps == Paragraphs(documents[1].text)
        IN  /\ Len(Owners) = Len(ps)
            /\ \A j \in DOMAIN ps :
                  Len(ps[j]) > chunker.chunk_size =>
                      /\ Paragraphs(all_chunks[Owners[j]].text) = <<Strip(ps[j])>>
                      /\ \A k \in DOMAIN ps : k # j => Owners[k] # Owners[j]

\* an oversized paragraph between two paragraphs that fit
C11_Witness ==
    /\ Chunked
    /\ LET ps == Paragraphs(documents[1].text)
       IN  /\ Len(ps) = 3
           /\ Len(ps[1]) <= chunker.chunk_size
           /\ Len(ps[2]) > chunker.chunk_size
           /\ Len(ps[3]) <= chunker.chunk_size
           /\ Len(all_chunks) = 3
           /\ all_chunks[2].text = Strip(ps[2])

OnlyWhitespace(t) == \A k \in DOMAIN t : t[k] \in Whitespace

\* C12: a document whose text is empty or only whitespace, blank-line
\* separators included, yields no chunk, and every emitted chunk has a
\* non-empty text.
C12_BlankDocumentNoChunk ==
    Chunked =>
        /\ OnlyWhitespace(documents[1].text) => all_chunks = <<>>
        /\ \A c \in DOMAIN all_chunks : all_chunks[c].text # <<>>

\* a document of spaces around a blank-line separator
C12_Witness ==
    /\ Chunked
    /\ OnlyWhitespace(documents[1].text)
    /\ Len(SplitBlankLine(documents[1].text)) >= 2
    /\ \E k \in DOMAIN documents[1].text : documents[1].text[k] = " "
    /\ all_chunks = <<>>

\* the chunks of the document under a chunker that differs from the one in
\* use in chunk_overlap only
ChunksWithOverlap(overlap) ==
    chunk_text(TextChunker(chunker.chunk_size, overlap),
               documents[1].text, documents[1].url, documents[1].title)

RECURSIVE Buffer(_, _, _, _)
Buffer(ps, own, c, j) ==
    IF j <= 1 THEN <<>>
    ELSE Buffer(ps, own, c, j - 1)
             \o (IF own[j - 1] = c THEN ps[j - 1] \o <<"\n", "\n">> ELSE <<>>)

BufferLen(ps, own, c, j) == Len(Buffer(ps, own, c, j))

\* the text the chunk would have if paragraph j were appended to the buffer
\* of chunk c
TextWith(ps, own, c, j) == Strip(Buffer(ps, own, c, j) \o ps[j])

\* the position in the document of the first paragraph of chunk c
FirstOf(own, c) == CHOOSE j \in DOMAIN own : own[j] = c /\ \A k \in 1..(j - 1) : own[k] # c

MaxCount == 3
Tokens == {linux, libre}

\* the term vectors: Counters with positive counts, the empty one included
Vectors == UNION {[D -> 1..MaxCount] : D \in SUBSET Tokens}

\* _cosine_similarity, computed once for every pair
VectorCosine == [p \in {<<a, b>> : a, b \in Vectors} |-> _cosine_similarity(p[1], p[2])]

InitCosine ==
    /\ chunker = TextChunker(CHUNK_SIZE, CHUNK_OVERLAP)
    /\ documents = <<>>
    /\ all_chunks = <<>>
    /\ doc_index = 1
    /\ semantic_search = None
    /\ pc = "_cosine_similarity"
    /\ NoCall
    /\ cosine_call \in {[vec1 |-> a, vec2 |-> b, returned |-> FALSE] : a, b \in Vectors}
    /\ NoApi
    /\ NoUnits

\* the calls _cosine_similarity(vec1, vec2), (vec2, vec1) and (vec1, vec1)
CosineCall ==
    /\ pc = "_cosine_similarity"
    /\ ~cosine_call.returned
    /\ cosine_call' =
          [vec1     |-> cosine_call.vec1,
           vec2     |-> cosine_call.vec2,
           returned |-> TRUE,
           forward  |-> VectorCosine[<<cosine_call.vec1, cosine_call.vec2>>],
           backward |-> VectorCosine[<<cosine_call.vec2, cosine_call.vec1>>],
           self     |-> VectorCosine[<<cosine_call.vec1, cosine_call.vec1>>]]
    /\ UNCHANGED <<chunker, documents, all_chunks, doc_index, semantic_search, pc, query,
                   threshold, max_context_length, query_vector, query_lower, best_score,
                   best_chunk, best_index, i, score, result>>
    /\ UNCHANGED api
    /\ UNCHANGED units

NextCosine == CosineCall

SpecCosine == InitCosine /\ [][NextCosine]_vars

CosineReturned == pc = "_cosine_similarity" /\ cosine_call.returned

\* C15: _cosine_similarity(a, b) = _cosine_similarity(b, a) for all term
\* vectors a and b, empty ones included.
C15_CosineSymmetric ==
    CosineReturned => cosine_call.forward = cosine_call.backward

\* two different vectors with a common token and a non-zero cosine
C15_Witness ==
    /\ CosineReturned
    /\ cosine_call.vec1 # cosine_call.vec2
    /\ DOMAIN cosine_call.vec1 # DOMAIN cosine_call.vec2
    /\ cosine_call.forward # FZero
    /\ cosine_call.forward = cosine_call.backward

FOne == FFromInt(1)

\* 1 - 2^-52 and 1 + 2^-52
FOneBelow == RoundF(<<Limb - 1, Limb - 1, Limb - 1, 127>>, -52)
FOneAbove == RoundF(BAdd(BShl(<<1>>, 52), <<1>>), -52)

\* C16: _cosine_similarity(v, v) = 1.0 for every non-empty term vector v.
C16_SelfCosineIsOne ==
    (CosineReturned /\ DOMAIN cosine_call.vec1 # {}) => cosine_call.self = FOne

\* C16, as the code has it: _cosine_similarity(v, v) is within 2^-52 of 1.0,
\* below or above it, and is exactly 1.0 for a vector of a single token.
C16_SelfCosineNearOne ==
    (CosineReturned /\ DOMAIN cosine_call.vec1 # {}) =>
        /\ FCmp(cosine_call.self, FOneBelow) >= 0
        /\ FCmp(cosine_call.self, FOneAbove) <= 0
        /\ Cardinality(DOMAIN cosine_call.vec1) = 1 => cosine_call.self = FOne

\* a vector whose self-similarity is above 1.0
C16_Witness ==
    /\ CosineReturned
    /\ DOMAIN cosine_call.vec1 # {}
    /\ FGt(cosine_call.self, FOne)

\* C17: _cosine_similarity is exactly 0.0 when the two vectors share no
\* token, empty vectors included, and never divides by zero.
C17_DisjointCosineIsZero ==
    CosineReturned =>
        /\ cosine_call.forward # ZeroDivisionError
        /\ cosine_call.backward # ZeroDivisionError
        /\ cosine_call.self # ZeroDivisionError
        /\ DOMAIN cosine_call.vec1 \cap DOMAIN cosine_call.vec2 = {} =>
              (cosine_call.forward = FZero /\ cosine_call.backward = FZero)
        /\ DOMAIN cosine_call.vec1 = {} => cosine_call.self = FZero

\* an empty vector against itself and against a non-empty one
C17_Witness ==
    /\ CosineReturned
    /\ DOMAIN cosine_call.vec1 = {}
    /\ DOMAIN cosine_call.vec2 # {}
    /\ cosine_call.forward = FZero
    /\ cosine_call.self = FZero

(***************************************************************************)
(* The API (app/main.py): the startup event, then requests served by       *)
(* concurrent threads, each run statement by statement.  SemanticSearch    *)
(* instances live in heap and are named by references [ref |-> n]; in this *)
(* part semantic_search, the module global, holds a reference or None.     *)
(***************************************************************************)
\* SIMILARITY_THRESHOLD = 0.12
AUTO_SCRAPE_ON_STARTUP == TRUE

SIMILARITY_THRESHOLD == ThresholdTable[120]

\* chunk_documents as one computation
RECURSIVE chunk_documents(_, _)
chunk_documents(self, docs) ==
    IF docs = <<>> THEN <<>>
    ELSE chunk_text(self, Head(docs).text, Head(docs).url, Head(docs).title)
             \o chunk_documents(self, Tail(docs))

\* __init__ up to the call of _index_chunks: the attributes of the new instance
NewInstance(chunks, boost_keywords) ==
    [chunks |-> chunks, boost_keywords |-> boost_keywords, vectors |-> <<>>,
     stopwords |-> stopwords]

get_stats(self) ==
    [total_chunks    |-> Len(self.chunks),
     total_vectors   |-> Len(self.vectors),
     boost_keywords  |-> self.boost_keywords,
     stopwords_count |-> Cardinality(self.stopwords)]

\* the locals of a call of search before the loop
EnterSearch(q, thr, limit) ==
    [query              |-> q,
     threshold          |-> thr,
     max_context_length |-> limit,
     query_vector       |-> QueryTable[q].vector,
     query_lower        |-> QueryTable[q].lower,
     best_score         |-> FZero,
     best_chunk         |-> None,
     best_index         |-> -1,
     i                  |-> 0]

\* exchange of the elements at positions a and b of a sequence
Swap(s, a, b) == [s EXCEPT ![a] = s[b], ![b] = s[a]]

\* variant: a chunk that improves the best score is moved to the front of
\* self.chunks and self.vectors
Compared_MoveToFront(self, frame, new_score) ==
    IF Improves(new_score, frame.best_score)
    THEN [self  |-> [self EXCEPT !.chunks = Swap(@, 1, frame.i + 1),
                                 !.vectors = Swap(@, 1, frame.i + 1)],
          frame |-> [frame EXCEPT !.best_score = new_score,
                                  !.best_chunk = self.chunks[frame.i + 1],
                                  !.best_index = frame.i,
                                  !.i = @ + 1]]
    ELSE [self |-> self, frame |-> [frame EXCEPT !.i = @ + 1]]

\* the comparison with the best score and what follows it
Compared(self, frame, new_score) ==
    IF Improves(new_score, frame.best_score)
    THEN [self  |-> self,
          frame |-> [frame EXCEPT !.best_score = new_score,
                                  !.best_chunk = self.chunks[frame.i + 1],
                                  !.best_index = frame.i,
                                  !.i = @ + 1]]
    ELSE [self |-> self, frame |-> [frame EXCEPT !.i = @ + 1]]

\* one iteration of the loop of search: the instance and the locals after it
ScoreChunk(self, frame) ==
    Compared(self, frame,
             ChunkScore(frame.query_vector, frame.query_lower, self.vectors[frame.i + 1],
                        self.boost_keywords))

\* the return statement of search from the locals after the loop
ReturnOf(frame) ==
    SearchResult(frame.best_score, frame.best_chunk, frame.best_index, frame.threshold,
                 frame.max_context_length)

\* the loop of search run without interruption
RECURSIVE ScanAlone(_)
ScanAlone(st) ==
    IF st.frame.i >= Len(st.self.vectors) THEN st
    ELSE ScanAlone(ScoreChunk(st.self, st.frame))

\* search run alone on an instance: the value it returns
search(self, q, thr, limit) ==
    IF QueryTable[q].blank THEN None
    ELSE ReturnOf(ScanAlone([self |-> self, frame |-> EnterSearch(q, thr, limit)]).frame)

\* the bodies of the requests: a blank one and two questions, one of them
\* with a leading space
Questions == {<<" ", "\n">>, linux, SP \o durable}

\* what scrape_multiple_urls([NIRD_URL]) returns: nothing, or the one document
ScrapedDocuments == {<<>>, <<Docs[1]>>}

\* the document of a page without text: scrape_url returns it with text ''
EmptyPage == [url |-> "url0", title |-> "title0", text |-> <<>>]

\* JSONExporter.export: the content of the file written
Export(chunks) ==
    [metadata |-> [total_chunks |-> Len(chunks)],
     chunks   |-> chunks]

\* a data file that export opened for writing and did not finish: json.load fails on it
Damaged == [damaged |-> TRUE]

\* how a call of export ends: the file is written; open() fails and the file
\* is as before; a write fails after open() truncated the file
ExportOutcomes == {"written", "not opened", "cut short"}

\* the data file at startup, left by an earlier run: none, one without
\* chunks, one with two chunks
DataFiles ==
    {None, Export(<<>>),
     Export(chunk_documents(TextChunker(SmallChunkSize, CHUNK_OVERLAP), <<Docs[4]>>))}

\* the instances built during one run of the model
MaxInstances == 2

RequestThreads == {"r1", "r2"}

\* a thread that serves no request
Idle ==
    [route    |-> "",
     pc       |-> "idle",
     question |-> <<>>,     \* the request body, then the local question
     self     |-> None,     \* search: the instance it was called on
     frame    |-> None,     \* search: its locals
     found    |-> None,     \* the value search returned
     chunks   |-> <<>>,     \* load_or_scrape_data, perform_scraping: chunks
     new      |-> None,     \* SemanticSearch(...) under construction
     status   |-> 0,        \* the response
     detail   |-> "",
     body     |-> None]

InitApi ==
    /\ chunker = TextChunker(CHUNK_SIZE, CHUNK_OVERLAP)
    /\ documents = <<>>
    /\ all_chunks = <<>>
    /\ doc_index = 1
    /\ semantic_search = None
    /\ pc = "api"
    /\ NoCall
    /\ cosine_call = None
    /\ heap = <<>>
    /\ threads = [t \in RequestThreads \cup {"startup"} |->
                      IF t = "startup" THEN [Idle EXCEPT !.route = "startup", !.pc = "load"]
                      ELSE Idle]
    /\ groq_client = None
    /\ data_file \in DataFiles
    /\ NoUnits

\* the variables the API does not use
core ==
    <<chunker, documents, all_chunks, doc_index, pc, query, threshold, max_context_length,
      query_vector, query_lower, best_score, best_chunk, best_index, i, score, result,
      cosine_call, vectorize_call, page_text, ask_call>>

Started == threads["startup"].pc = "done"

\* raise HTTPException(status_code, detail), or the handler's return
Respond(t, status, detail, body) ==
    threads' = [threads EXCEPT ![t].pc = "responded", ![t].status = status,
                               ![t].detail = detail, ![t].body = body]

Goto(t, label) == threads' = [threads EXCEPT ![t].pc = label]

\* variant: "if chunks is not None", a file with an empty chunk list is accepted
Load_AcceptsEmpty(t, readable) ==
    /\ threads[t].pc = "load"
    /\ IF data_file # None /\ data_file # Damaged /\ readable
       THEN threads' = [threads EXCEPT ![t].chunks = data_file.chunks, ![t].pc = "init"]
       ELSE IF AUTO_SCRAPE_ON_STARTUP THEN Goto(t, "scrape")
       ELSE Goto(t, "groq_init")
    /\ UNCHANGED <<semantic_search, heap, groq_client, data_file>>
    /\ UNCHANGED core

\* load_or_scrape_data up to the construction of the index or the scraping;
\* readable: exporter.load returns the content of the file
Load(t, readable) ==
    /\ threads[t].pc = "load"
    /\ IF data_file # None /\ data_file # Damaged /\ readable /\ data_file.chunks # <<>>
       THEN threads' = [threads EXCEPT ![t].chunks = data_file.chunks, ![t].pc = "init"]
       ELSE IF AUTO_SCRAPE_ON_STARTUP THEN Goto(t, "scrape")
       ELSE Goto(t, "groq_init")
    /\ UNCHANGED <<semantic_search, heap, groq_client, data_file>>
    /\ UNCHANGED core

\* perform_scraping returns False: the startup event goes on, /scrape answers 500
ScrapingFailed(t) ==
    IF threads[t].route = "startup" THEN Goto(t, "groq_init")
    ELSE Respond(t, 500, "Échec du scraping", None)

\* variant: the global is set to None before the index is rebuilt
Scrape_ClearsFirst(t, docs, exported) ==
    /\ threads[t].pc = "scrape"
    /\ semantic_search' = None
    /\ IF docs = <<>>
       THEN /\ exported = "written"
            /\ ScrapingFailed(t)
            /\ UNCHANGED data_file
       ELSE IF exported # "written"
       THEN /\ ScrapingFailed(t)
            /\ data_file' = IF exported = "cut short" THEN Damaged ELSE data_file
       ELSE LET chunks == chunk_documents(chunker, docs)
            IN  /\ data_file' = Export(chunks)
                /\ threads' = [threads EXCEPT ![t].chunks = chunks, ![t].pc = "init"]
    /\ UNCHANGED <<heap, groq_client>>
    /\ UNCHANGED core

\* variant: a data file that exists is not written again
Scrape_KeepsFile(t, docs, exported) ==
    /\ threads[t].pc = "scrape"
    /\ IF docs = <<>>
       THEN /\ exported = "written"
            /\ ScrapingFailed(t)
            /\ UNCHANGED data_file
       ELSE IF exported # "written"
       THEN /\ ScrapingFailed(t)
            /\ data_file' = IF exported = "cut short" THEN Damaged ELSE data_file
       ELSE LET chunks == chunk_documents(chunker, docs)
            IN  /\ data_file' = IF data_file = None THEN Export(chunks) ELSE data_file
                /\ threads' = [threads EXCEPT ![t].chunks = chunks, ![t].pc = "init"]
    /\ UNCHANGED <<semantic_search, heap, groq_client>>
    /\ UNCHANGED core

\* perform_scraping up to the construction of the index
Scrape(t, docs, exported) ==
    /\ threads[t].pc = "scrape"
    /\ IF docs = <<>>
       THEN /\ exported = "written"
            /\ ScrapingFailed(t)
            /\ UNCHANGED data_file
       ELSE IF exported # "written"
       THEN /\ ScrapingFailed(t)
            /\ data_file' = IF exported = "cut short" THEN Damaged ELSE data_file
       ELSE LET chunks == chunk_documents(chunker, docs)
            IN  /\ data_file' = Export(chunks)
                /\ threads' = [threads EXCEPT ![t].chunks = chunks, ![t].pc = "init"]
    /\ UNCHANGED <<semantic_search, heap, groq_client>>
    /\ UNCHANGED core

\* variant: the live instance is rebuilt in place
NewRef_InPlace(h, live) == IF live # None THEN live ELSE [ref |-> Len(h) + 1]

\* the reference of the object that SemanticSearch(...) creates
NewRef(h, live) == [ref |-> Len(h) + 1]

\* SemanticSearch.__init__ up to the call of _index_chunks
InitInstance(t) ==
    /\ threads[t].pc = "init"
    /\ LET ref == NewRef(heap, semantic_search)
           obj == NewInstance(threads[t].chunks, BOOST_KEYWORDS)
       IN  /\ heap' = IF ref.ref = Len(heap) + 1 THEN Append(heap, obj)
                      ELSE [heap EXCEPT ![ref.ref] = obj]
           /\ threads' = [threads EXCEPT ![t].new = ref, ![t].pc = "index"]
    /\ UNCHANGED <<semantic_search, groq_client, data_file>>
    /\ UNCHANGED core

\* _index_chunks: self.vectors = [...]
IndexChunks(t) ==
    /\ threads[t].pc = "index"
    /\ heap' = [heap EXCEPT ![threads[t].new.ref].vectors =
                          _index_chunks(heap[threads[t].new.ref].chunks)]
    /\ Goto(t, "publish")
    /\ UNCHANGED <<semantic_search, groq_client, data_file>>
    /\ UNCHANGED core

\* semantic_search = SemanticSearch(chunks, BOOST_KEYWORDS): the assignment
Publish(t) ==
    /\ threads[t].pc = "publish"
    /\ semantic_search' = threads[t].new
    /\ threads' = [threads EXCEPT ![t].new = None, ![t].chunks = <<>>,
                                  ![t].pc = IF threads[t].route = "startup"
                                            THEN "groq_init" ELSE "scrape_stats"]
    /\ UNCHANGED <<heap, groq_client, data_file>>
    /\ UNCHANGED core

\* initialize_chat_generator, then the startup event is over
InitGroq(t, has_key) ==
    /\ threads[t].pc = "groq_init"
    /\ groq_client' = IF has_key THEN [api_key |-> "GROQ_API_KEY"] ELSE None
    /\ Goto(t, "done")
    /\ UNCHANGED <<semantic_search, heap, data_file>>
    /\ UNCHANGED core

\* /scrape after perform_scraping returned True
ScrapeStats(t) ==
    /\ threads[t].pc = "scrape_stats"
    /\ LET stats == IF semantic_search # None THEN get_stats(heap[semantic_search.ref])
                    ELSE <<>>
       IN  Respond(t, 200, "", [success |-> TRUE, total_chunks |-> Get(stats, "total_chunks", 0)])
    /\ UNCHANGED <<semantic_search, heap, groq_client, data_file>>
    /\ UNCHANGED core

\* the constructions begun or about to begin
Building == {t \in DOMAIN threads : threads[t].pc \in {"load", "scrape", "init"}}

\* a request arrives
Receive(t, route, body) ==
    /\ Started
    /\ t \in RequestThreads
    /\ threads[t].pc = "idle"
    /\ route = "/scrape" => Len(heap) + Cardinality(Building) < MaxInstances
    /\ threads' = [threads EXCEPT ![t].route = route, ![t].question = body,
                                  ![t].pc = CASE route = "/chat"   -> "question"
                                              [] route = "/search" -> "index?"
                                              [] route = "/stats"  -> "index?"
                                              [] route = "/health" -> "health"
                                              [] route = "/scrape" -> "scrape"]
    /\ UNCHANGED <<semantic_search, heap, groq_client, data_file>>
    /\ UNCHANGED core

\* variant: "question = request.question"
RequestQuestion_Raw(body) == body

\* "question = request.question.strip()"
RequestQuestion(body) == Strip(body)

\* question = request.question.strip(); if not question: 400
CheckQuestion(t) ==
    /\ threads[t].pc = "question"
    /\ LET question == RequestQuestion(threads[t].question)
       IN  IF question = <<>>
           THEN Respond(t, 400, "Question vide", None)
           ELSE threads' = [threads EXCEPT ![t].question = question,
                                           ![t].pc = IF threads[t].route = "/chat"
                                                     THEN "index?" ELSE "call"]
    /\ UNCHANGED <<semantic_search, heap, groq_client, data_file>>
    /\ UNCHANGED core

\* if not semantic_search: 503 (404 in /stats)
CheckIndex(t) ==
    /\ threads[t].pc = "index?"
    /\ IF semantic_search = None
       THEN IF threads[t].route = "/stats"
            THEN Respond(t, 404, "Aucune donnée indexée", None)
            ELSE Respond(t, 503,
                         IF threads[t].route = "/chat"
                         THEN "Service de recherche non disponible. Lancez /scrape d'abord."
                         ELSE "Service de recherche non disponible", None)
       ELSE Goto(t, CASE threads[t].route = "/chat"   -> "groq?"
                      [] threads[t].route = "/search" -> "question"
                      [] threads[t].route = "/stats"  -> "stats")
    /\ UNCHANGED <<semantic_search, heap, groq_client, data_file>>
    /\ UNCHANGED core

\* if not groq_client: 503
CheckGroq(t) ==
    /\ threads[t].pc = "groq?"
    /\ IF groq_client = None
       THEN Respond(t, 503, "Client Groq non disponible. Vérifiez GROQ_API_KEY.", None)
       ELSE Goto(t, "call")
    /\ UNCHANGED <<semantic_search, heap, groq_client, data_file>>
    /\ UNCHANGED core

\* semantic_search.search(query=question, threshold=SIMILARITY_THRESHOLD,
\* max_context_length=MAX_CONTEXT_LENGTH): the global is read and search runs
\* up to its loop
CallSearch(t) ==
    /\ threads[t].pc = "call"
    /\ IF semantic_search = None
       THEN Respond(t, 500, "AttributeError", None)
       ELSE IF QueryTable[threads[t].question].blank
       THEN threads' = [threads EXCEPT ![t].self = semantic_search, ![t].found = None,
                                       ![t].pc = "result"]
       ELSE threads' = [threads EXCEPT ![t].self = semantic_search,
                                       ![t].frame = EnterSearch(threads[t].question,
                                                                SIMILARITY_THRESHOLD,
                                                                MAX_CONTEXT_LENGTH),
                                       ![t].pc = "scan"]
    /\ UNCHANGED <<semantic_search, heap, groq_client, data_file>>
    /\ UNCHANGED core

\* the instance and the locals of the call after an iteration
Scored(t, st) ==
    /\ heap' = [heap EXCEPT ![threads[t].self.ref] = st.self]
    /\ threads' = [threads EXCEPT ![t].frame = st.frame]

\* search: one iteration of the loop over self.vectors
Score(t) ==
    /\ threads[t].pc = "scan"
    /\ threads[t].frame.i < Len(heap[threads[t].self.ref].vectors)
    /\ Scored(t, ScoreChunk(heap[threads[t].self.ref], threads[t].frame))
    /\ UNCHANGED <<semantic_search, groq_client, data_file>>
    /\ UNCHANGED core

\* search: the loop is over and the result is returned
Return(t) ==
    /\ threads[t].pc = "scan"
    /\ threads[t].frame.i >= Len(heap[threads[t].self.ref].vectors)
    /\ threads' = [threads EXCEPT ![t].found = ReturnOf(threads[t].frame),
                                  ![t].frame = None, ![t].pc = "result"]
    /\ UNCHANGED <<semantic_search, heap, groq_client, data_file>>
    /\ UNCHANGED core

\* the handler uses the value of search: /search returns it as JSON, /chat
\* reads search_result["context"], calls Groq and returns the answer
UseResult(t, generated) ==
    /\ threads[t].pc = "result"
    /\ LET found == threads[t].found
       IN  IF threads[t].route = "/search"
           THEN Respond(t, 200, "", found)
           ELSE IF found = None
           THEN Respond(t, 500, "'NoneType' object is not subscriptable", None)
           ELSE IF ~generated
           THEN Respond(t, 500, "Groq", None)
           ELSE Respond(t, 200, "",
                        [question     |-> threads[t].question,
                         context      |-> found.context,
                         confidence   |-> found.confidence,
                         source_url   |-> found.source_url,
                         source_title |-> found.source_title])
    /\ UNCHANGED <<semantic_search, heap, groq_client, data_file>>
    /\ UNCHANGED core

\* /stats after the check of the index: exporter.load, then get_stats
Stats(t, readable) ==
    /\ threads[t].pc = "stats"
    /\ IF data_file = None \/ data_file = Damaged \/ ~readable
       THEN Respond(t, 500, "load", None)
       ELSE IF semantic_search = None
       THEN Respond(t, 500, "AttributeError", None)
       ELSE Respond(t, 200, "", [metadata     |-> data_file.metadata,
                                 search_stats |-> get_stats(heap[semantic_search.ref])])
    /\ UNCHANGED <<semantic_search, heap, groq_client, data_file>>
    /\ UNCHANGED core

\* /health: the two globals are read, get_stats when there is an index
Health(t) ==
    /\ threads[t].pc = "health"
    /\ Respond(t, 200, "",
               [status                |-> "healthy",
                semantic_search_ready |-> semantic_search # None,
                groq_client_ready     |-> groq_client # None,
                data_indexed          |-> IF semantic_search # None
                                          THEN get_stats(heap[semantic_search.ref])
                                          ELSE None])
    /\ UNCHANGED <<semantic_search, heap, groq_client, data_file>>
    /\ UNCHANGED core

\* the response is sent and the thread is free for the next request
Done(t) ==
    /\ threads[t].pc = "responded"
    /\ threads' = [threads EXCEPT ![t] = Idle]
    /\ UNCHANGED <<semantic_search, heap, groq_client, data_file>>
    /\ UNCHANGED core

NextApi ==
    \/ \E readable \in BOOLEAN : Load("startup", readable)
    \/ \E t \in DOMAIN threads, docs \in ScrapedDocuments, exported \in ExportOutcomes :
           Scrape(t, docs, exported)
    \/ \E t \in DOMAIN threads : InitInstance(t)
    \/ \E t \in DOMAIN threads : IndexChunks(t)
    \/ \E t \in DOMAIN threads : Publish(t)
    \/ \E has_key \in BOOLEAN : InitGroq("startup", has_key)
    \/ \E t \in RequestThreads : ScrapeStats(t)
    \/ \E t \in RequestThreads, route \in {"/chat", "/search"}, body \in Questions :
           Receive(t, route, body)
    \/ \E t \in RequestThreads, route \in {"/scrape", "/stats"} : Receive(t, route, <<>>)
    \/ \E t \in RequestThreads : CheckQuestion(t)
    \/ \E t \in RequestThreads : CheckIndex(t)
    \/ \E t \in RequestThreads : CheckGroq(t)
    \/ \E t \in RequestThreads : CallSearch(t)
    \/ \E t \in RequestThreads : Score(t)
    \/ \E t \in RequestThreads : Return(t)
    \/ \E t \in RequestThreads, generated \in BOOLEAN : UseResult(t, generated)
    \/ \E t \in RequestThreads, readable \in BOOLEAN : Stats(t, readable)
    \/ \E t \in RequestThreads : Done(t)

SpecApi == InitApi /\ [][NextApi]_vars

(***************************************************************************)
(* The API as uvicorn runs it: the startup event, then the handlers one at *)
(* a time.  Every route of app/main.py is an "async def" without an await, *)
(* so a handler runs from its first statement to its response before the   *)
(* event loop takes the next request.                                      *)
(***************************************************************************)
\* what scrape_multiple_urls([NIRD_URL]) returns from one request to the next:
\* nothing, the page, the page after it changed, a page without text
ScrapedPages == ScrapedDocuments \cup {<<Docs[2]>>, <<EmptyPage>>}

\* no other handler is running
Turn(t) == \A u \in RequestThreads \ {t} : threads[u].pc = "idle"

\* the thread may take a step: the startup event, or the one handler that runs
Runs(t) == t = "startup" \/ Turn(t)

\* the statements of the startup event
StartupStep ==
    \/ \E readable \in BOOLEAN : Load("startup", readable)
    \/ \E docs \in ScrapedPages, exported \in ExportOutcomes : Scrape("startup", docs, exported)
    \/ InitInstance("startup")
    \/ IndexChunks("startup")
    \/ Publish("startup")
    \/ \E has_key \in BOOLEAN : InitGroq("startup", has_key)

NextServe ==
    \/ \E readable \in BOOLEAN : Load("startup", readable)
    \/ \E t \in DOMAIN threads, docs \in ScrapedPages, exported \in ExportOutcomes :
           Runs(t) /\ Scrape(t, docs, exported)
    \/ \E t \in DOMAIN threads : Runs(t) /\ InitInstance(t)
    \/ \E t \in DOMAIN threads : Runs(t) /\ IndexChunks(t)
    \/ \E t \in DOMAIN threads : Runs(t) /\ Publish(t)
    \/ \E has_key \in BOOLEAN : InitGroq("startup", has_key)
    \/ \E t \in RequestThreads : Turn(t) /\ ScrapeStats(t)
    \/ \E t \in RequestThreads, route \in {"/chat", "/search"}, body \in Questions :
           Turn(t) /\ Receive(t, route, body)
    \/ \E t \in RequestThreads, route \in {"/scrape", "/stats", "/health"} :
           Turn(t) /\ Receive(t, route, <<>>)
    \/ \E t \in RequestThreads : Turn(t) /\ CheckQuestion(t)
    \/ \E t \in RequestThreads : Turn(t) /\ CheckIndex(t)
    \/ \E t \in RequestThreads : Turn(t) /\ CheckGroq(t)
    \/ \E t \in RequestThreads : Turn(t) /\ CallSearch(t)
    \/ \E t \in RequestThreads : Turn(t) /\ Score(t)
    \/ \E t \in RequestThreads : Turn(t) /\ Return(t)
    \/ \E t \in RequestThreads, generated \in BOOLEAN : Turn(t) /\ UseResult(t, generated)
    \/ \E t \in RequestThreads, readable \in BOOLEAN : Turn(t) /\ Stats(t, readable)
    \/ \E t \in RequestThreads : Turn(t) /\ Health(t)
    \/ \E t \in RequestThreads : Turn(t) /\ Done(t)

SpecServe == InitApi /\ [][NextServe]_vars

\* the startup event is not suspended for ever: each of its statements
\* returns or raises (the page is fetched with a timeout)
SpecServeLive == SpecServe /\ WF_vars(StartupStep)

\* the instance a thread's call of search runs on
SelfOf(t) == heap[threads[t].self.ref]

\* the thread runs a statement of search or of get_stats
InSearchOrStats(t) == threads[t].pc \in {"call", "scan", "stats", "scrape_stats"}

\* C13: the index is read-only after construction: no step of search or
\* get_stats, in any interleaving of the threads, changes chunks, vectors,
\* boost_keywords or stopwords of any instance, and a search that ran
\* interleaved with other searches returns what the same search returns when
\* run alone on its instance.
C13_IndexReadOnly ==
    /\ [][\A t \in RequestThreads :
              (InSearchOrStats(t) /\ threads'[t] # threads[t]) => heap' = heap]_vars
    /\ [](pc = "api" =>
            \A t \in RequestThreads :
                threads[t].pc = "result" =>
                    threads[t].found = search(SelfOf(t), threads[t].question,
                                              SIMILARITY_THRESHOLD, MAX_CONTEXT_LENGTH))

\* a search has returned a chunk while another search, for another question,
\* is half way through the same two-chunk instance
C13_Witness ==
    /\ pc = "api"
    /\ threads["r1"].pc = "result"
    /\ threads["r1"].found.found
    /\ threads["r2"].pc = "scan"
    /\ threads["r2"].self = threads["r1"].self
    /\ threads["r2"].frame.i = 1
    /\ threads["r2"].frame.query # threads["r1"].question
    /\ Len(SelfOf("r2").vectors) = 2

\* the instance has a vector for each chunk, the vector of its text
Complete(obj) == obj.vectors = _index_chunks(obj.chunks)

\* the instance at reference r is inside SemanticSearch(...)
UnderConstruction(r) == \E t \in DOMAIN threads : threads[t].new = [ref |-> r]

\* C14: a rebuild publishes a new, fully constructed instance by one
\* assignment of the global and never changes an instance that exists: the
\* global is None or names an instance with as many vectors as chunks (the
\* vectors of its chunks), so does the instance of every search under way, an
\* instance changes only inside its own constructor, and the global changes
\* only by the assignment that ends a rebuild, to the instance just built.
C14_AtomicPublish ==
    /\ [](pc = "api" =>
            /\ semantic_search # None =>
                  /\ Complete(heap[semantic_search.ref])
                  /\ Len(heap[semantic_search.ref].vectors)
                         = Len(heap[semantic_search.ref].chunks)
            /\ \A t \in RequestThreads :
                  threads[t].self # None =>
                      /\ Complete(SelfOf(t))
                      /\ Len(SelfOf(t).vectors) = Len(SelfOf(t).chunks))
    /\ [][/\ \A r \in DOMAIN heap : ~UnderConstruction(r) => heap'[r] = heap[r]
          /\ semantic_search' # semantic_search =>
                /\ heap' = heap
                /\ \E t \in DOMAIN threads :
                      /\ threads[t].pc = "publish"
                      /\ threads[t].new = semantic_search'
                      /\ Complete(heap[threads[t].new.ref])]_vars

\* a search is half way through the live instance while a rebuild holds a new
\* instance that has chunks and no vectors yet
C14_Witness ==
    /\ pc = "api"
    /\ threads["r1"].pc = "scan"
    /\ threads["r1"].frame.i = 1
    /\ threads["r1"].self = semantic_search
    /\ threads["r2"].pc = "index"
    /\ threads["r2"].new # semantic_search
    /\ heap[threads["r2"].new.ref].chunks # <<>>
    /\ heap[threads["r2"].new.ref].vectors = <<>>

\* the thread serves /chat or /search
Asks(t) == threads[t].route \in {"/chat", "/search"}

\* the 503 of the index check
IndexMissing(t) ==
    /\ threads[t].status = 503
    /\ threads[t].detail \in {"Service de recherche non disponible",
                              "Service de recherche non disponible. Lancez /scrape d'abord."}

\* C19: /chat and /search call search only on an index that is not None and
\* with a stripped, non-empty question, so search never returns None to them;
\* an empty question is answered 400 and a missing index 503 (when both
\* hold, /chat answers 400 and /search 503), and the only 500 of these routes
\* comes from the generation of the answer.
C19_RoutesGuardSearch ==
    pc = "api" =>
        \A t \in RequestThreads :
            Asks(t) =>
                /\ threads[t].pc \in {"scan", "result"} =>
                      /\ threads[t].self # None
                      /\ threads[t].question # <<>>
                      /\ threads[t].question = Strip(threads[t].question)
                /\ threads[t].pc = "result" => threads[t].found # None
                /\ threads[t].pc = "responded" =>
                      /\ threads[t].status \in {200, 400, 500, 503}
                      /\ threads[t].status = 500 =>
                            threads[t].route = "/chat" /\ threads[t].detail = "Groq"
                      /\ threads[t].status = 400 => Strip(threads[t].question) = <<>>
                      /\ Strip(threads[t].question) = <<>> =>
                            \/ threads[t].status = 400
                            \/ threads[t].route = "/search" /\ IndexMissing(t)
                      /\ semantic_search = None =>
                            \/ IndexMissing(t)
                            \/ /\ threads[t].route = "/chat"
                               /\ threads[t].status = 400
                               /\ Strip(threads[t].question) = <<>>
                      /\ threads[t].status = 200 => threads[t].body # None

\* no index and a blank question: /chat has answered 400 and /search 503
C19_Witness ==
    /\ pc = "api"
    /\ semantic_search = None
    /\ threads["r1"].pc = "responded"
    /\ threads["r1"].route = "/chat"
    /\ threads["r1"].question = <<" ", "\n">>
    /\ threads["r1"].status = 400
    /\ threads["r2"].pc = "responded"
    /\ threads["r2"].route = "/search"
    /\ threads["r2"].question = <<" ", "\n">>
    /\ threads["r2"].status = 503

\* C22: every constructed instance, in every later state, has as many vectors
\* as chunks, vectors[k] being the term vector of the text of chunks[k], and
\* every get_stats answer reports total_vectors equal to total_chunks.
C22_VectorsAlignedWithChunks ==
    pc = "api" =>
        /\ \A r \in DOMAIN heap :
              ~UnderConstruction(r) =>
                  /\ Len(heap[r].vectors) = Len(heap[r].chunks)
                  /\ \A k \in DOMAIN heap[r].chunks :
                        heap[r].vectors[k] = _clean_and_vectorize(heap[r].chunks[k].text)
                  /\ get_stats(heap[r]).total_vectors = get_stats(heap[r]).total_chunks
        /\ \A t \in RequestThreads :
              (threads[t].pc = "responded" /\ threads[t].route = "/stats"
                   /\ threads[t].status = 200) =>
                  threads[t].body.search_stats.total_vectors
                      = threads[t].body.search_stats.total_chunks

\* /stats has answered for a live instance of two chunks with different vectors
C22_Witness ==
    /\ pc = "api"
    /\ semantic_search # None
    /\ Len(heap[semantic_search.ref].chunks) = 2
    /\ heap[semantic_search.ref].vectors[1] # heap[semantic_search.ref].vectors[2]
    /\ threads["r1"].pc = "responded"
    /\ threads["r1"].route = "/stats"
    /\ threads["r1"].status = 200
    /\ threads["r1"].body.search_stats.total_vectors = 2

(***************************************************************************)
(* SemanticSearch._clean_and_vectorize on its own: one call per behaviour, *)
(* made twice on the same instance, over every text of a small alphabet    *)
(* that holds a stopword ("ses"), capitals, tokens of one and two          *)
(* characters and repeated tokens.                                         *)
(***************************************************************************)
MaxVectorizeLen == 7

VectorizeAlphabet == {"e", "s", "S", " "}

VectorizeTexts == SeqsUpTo(VectorizeAlphabet, MaxVectorizeLen)

InitVectorize ==
    /\ chunker = TextChunker(CHUNK_SIZE, CHUNK_OVERLAP)
    /\ documents = <<>>
    /\ all_chunks = <<>>
    /\ doc_index = 1
    /\ semantic_search = None
    /\ pc = "_clean_and_vectorize"
    /\ NoCall
    /\ cosine_call = None
    /\ NoApi
    /\ vectorize_call \in {[text |-> t, returned |-> FALSE] : t \in VectorizeTexts}
    /\ page_text = None
    /\ ask_call = None

\* the call self._clean_and_vectorize(text), and the same call once more
VectorizeCall ==
    /\ pc = "_clean_and_vectorize"
    /\ ~vectorize_call.returned
    /\ vectorize_call' =
          [text     |-> vectorize_call.text,
           returned |-> TRUE,
           vector   |-> _clean_and_vectorize(vectorize_call.text),
           again    |-> _clean_and_vectorize(vectorize_call.text)]
    /\ UNCHANGED <<chunker, documents, all_chunks, doc_index, semantic_search, pc, query,
                   threshold, max_context_length, query_vector, query_lower, best_score,
                   best_chunk, best_index, i, score, result, cosine_call, page_text, ask_call>>
    /\ UNCHANGED api

NextVectorize == VectorizeCall

SpecVectorize == InitVectorize /\ [][NextVectorize]_vars

\* the word tokens of a text: the maximal runs of word characters, as pairs
\* of first and last position
TokenRuns(t) ==
    {r \in (DOMAIN t) \X (DOMAIN t) :
        /\ r[1] <= r[2]
        /\ \A k \in r[1]..r[2] : t[k] \in WordChars
        /\ r[1] = 1 \/ t[r[1] - 1] \notin WordChars
        /\ r[2] = Len(t) \/ t[r[2] + 1] \notin WordChars}

\* the tokens that count: lower-cased, longer than 2, not a stopword
KeptRuns(t) ==
    {r \in TokenRuns(t) :
        /\ r[2] - r[1] + 1 > 2
        /\ Lower(SubSeq(t, r[1], r[2])) \notin stopwords}

\* C23: the vector of a text has as keys exactly its lower-cased word tokens
\* longer than 2 that are not stopwords, each with its number of occurrences,
\* at least 1; a text without such a token has the empty vector; the same
\* text gives the same vector again.
C23_VectorIsTokenCount ==
    (pc = "_clean_and_vectorize" /\ vectorize_call.returned) =>
        LET t == vectorize_call.text
            v == vectorize_call.vector
        IN  /\ DOMAIN v = {Lower(SubSeq(t, r[1], r[2])) : r \in KeptRuns(t)}
            /\ \A w \in DOMAIN v :
                  /\ v[w] = Cardinality({r \in KeptRuns(t) : Lower(SubSeq(t, r[1], r[2])) = w})
                  /\ v[w] >= 1
            /\ KeptRuns(t) = {} => v = <<>>
            /\ vectorize_call.again = v

\* "See ses see": a capital, a stopword and a token that occurs twice
C23_Witness ==
    /\ pc = "_clean_and_vectorize"
    /\ vectorize_call.returned
    /\ vectorize_call.text = <<"S", "e", "e", " ", "s", "e", "e">>
    /\ vectorize_call.vector = [w \in {<<"s", "e", "e">>} |-> 2]

(***************************************************************************)
(* WebScraper.scrape_url (app/modules/scraper.py) followed by              *)
(* chunk_documents: the page text is what BeautifulSoup's get_text gave,   *)
(* any text of a small alphabet with line breaks and spaces.               *)
(***************************************************************************)
\* str.splitlines()
RECURSIVE SplitLines(_)
SplitLines(t) ==
    LET at == {k \in DOMAIN t : t[k] = "\n"}
    IN  IF t = <<>> THEN <<>>
        ELSE IF at = {} THEN <<t>>
        ELSE LET k == CHOOSE a \in at : \A b \in at : a <= b
             IN  <<SubSeq(t, 1, k - 1)>> \o SplitLines(SubSeq(t, k + 1, Len(t)))

\* '\n'.join(lines)
RECURSIVE JoinLines(_)
JoinLines(lines) ==
    IF lines = <<>> THEN <<>>
    ELSE IF Len(lines) = 1 THEN lines[1]
    ELSE lines[1] \o <<"\n">> \o JoinLines(Tail(lines))

\* variant: every line is kept, '\n'.join(line.strip() for line in text.splitlines())
CleanLines_KeepsEmpty(text) ==
    JoinLines([k \in DOMAIN SplitLines(text) |-> Strip(SplitLines(text)[k])])

\* '\n'.join(line.strip() for line in text.splitlines() if line.strip())
CleanLines(text) ==
    LET lines == SplitLines(text)
        kept  == SelectSeq(lines, LAMBDA line : Strip(line) # <<>>)
    IN  JoinLines([k \in DOMAIN kept |-> Strip(kept[k])])

MaxPageLen == 5

PageAlphabet == {"a", " ", "\n"}

PageTexts == SeqsUpTo(PageAlphabet, MaxPageLen)

InitScrape ==
    /\ chunker \in {TextChunker(size, overlap) : size \in 1..MaxChunkSize, overlap \in Overlaps}
    /\ documents = <<>>
    /\ all_chunks = <<>>
    /\ doc_index = 1
    /\ semantic_search = None
    /\ pc = "scrape_url"
    /\ NoCall
    /\ cosine_call = None
    /\ NoApi
    /\ vectorize_call = None
    /\ page_text \in PageTexts
    /\ ask_call = None

\* scrape_multiple_urls over one url: scrape_url returns the document, or None
\* after an exception, and then the list of documents is empty
ScrapeUrl(fetched) ==
    /\ pc = "scrape_url"
    /\ documents' = IF fetched
                    THEN <<[url |-> "url1", title |-> "title1", text |-> CleanLines(page_text)]>>
                    ELSE <<>>
    /\ pc' = "chunk_documents"
    /\ UNCHANGED <<chunker, all_chunks, doc_index, semantic_search, query, threshold,
                   max_context_length, query_vector, query_lower, best_score, best_chunk,
                   best_index, i, score, result>>
    /\ UNCHANGED others

NextScrape ==
    \/ \E fetched \in BOOLEAN : ScrapeUrl(fetched)
    \/ ChunkDocument

SpecScrape == InitScrape /\ [][NextScrape]_vars

\* C29: the text of a scraped document holds no blank line, so chunk_text
\* gives at most one chunk for it whatever the chunk size, and
\* chunk_documents gives at most as many chunks as documents.
C29_OneChunkPerPage ==
    pc = "chunk_documents" =>
        /\ \A d \in DOMAIN documents :
              /\ ~Contains(documents[d].text, BlankLine)
              /\ Len(chunk_text(chunker, documents[d].text, documents[d].url,
                                documents[d].title)) <= 1
        /\ Len(all_chunks) <= Len(documents)

\* a page whose text has an empty line between two lines gives one chunk
C29_Witness ==
    /\ pc = "chunk_documents"
    /\ page_text = <<"a", "\n", " ", "\n", "a">>
    /\ chunker.chunk_size = 1
    /\ doc_index = 2
    /\ documents[1].text = <<"a", "\n", "a">>
    /\ Len(all_chunks) = 1
    /\ all_chunks[1].text = <<"a", "\n", "a">>

(***************************************************************************)
(* The standalone API (main.py): POST /ask.  One request per behaviour;    *)
(* the body passed validation, contexte and question are any two texts.    *)
(***************************************************************************)
MaxAskLen == 2

AskTexts == SeqsUpTo({"a", " ", "\n"}, MaxAskLen)

\* "Erreur : " + str(e) for the HTTPException raised on an empty question:
\* str(e) is "400: Question vide" where the exception class defines __str__
\* and the text of its arguments where it does not
EmptyQuestionDetails == {"Erreur : 400: Question vide", "Erreur : (400, 'Question vide')"}

InitAsk ==
    /\ chunker = TextChunker(CHUNK_SIZE, CHUNK_OVERLAP)
    /\ documents = <<>>
    /\ all_chunks = <<>>
    /\ doc_index = 1
    /\ semantic_search = None
    /\ pc = "ask"
    /\ NoCall
    /\ cosine_call = None
    /\ NoApi
    /\ vectorize_call = None
    /\ page_text = None
    /\ ask_call \in {[contexte |-> c, question |-> q, pc |-> "received", context |-> <<>>,
                       called |-> FALSE, status |-> 0, detail |-> ""] : c, q \in AskTexts}

AskUnchanged ==
    /\ UNCHANGED <<chunker, documents, all_chunks, doc_index, semantic_search, pc, query,
                   threshold, max_context_length, query_vector, query_lower, best_score,
                   best_chunk, best_index, i, score, result, cosine_call, vectorize_call,
                   page_text>>
    /\ UNCHANGED api

\* the try block up to the call of the client: both fields are stripped; on
\* an empty question HTTPException(400, "Question vide") is raised inside
\* the try block, is caught by "except Exception" like any other exception
\* and is raised again as HTTPException(500, "Erreur : " + str(e))
AskCheckQuestion(detail) ==
    /\ pc = "ask"
    /\ ask_call.pc = "received"
    /\ IF Strip(ask_call.question) = <<>>
       THEN ask_call' = [ask_call EXCEPT !.pc = "responded", !.context = Strip(ask_call.contexte),
                                         !.question = <<>>, !.status = 500, !.detail = detail]
       ELSE /\ detail = "Erreur : 400: Question vide"
            /\ ask_call' = [ask_call EXCEPT !.pc = "groq", !.context = Strip(ask_call.contexte),
                                            !.question = Strip(ask_call.question)]
    /\ AskUnchanged

\* client.chat.completions.create(...): an answer, or an exception
AskGroq(answered) ==
    /\ pc = "ask"
    /\ ask_call.pc = "groq"
    /\ ask_call' = [ask_call EXCEPT !.pc = "responded", !.called = TRUE,
                                    !.status = IF answered THEN 200 ELSE 500,
                                    !.detail = IF answered THEN "" ELSE "Erreur : groq"]
    /\ AskUnchanged

NextAsk ==
    \/ \E detail \in EmptyQuestionDetails : AskCheckQuestion(detail)
    \/ \E answered \in BOOLEAN : AskGroq(answered)

SpecAsk == InitAsk /\ [][NextAsk]_vars

\* C30: a request of /ask whose question is empty or only whitespace is
\* answered with status 400 and detail "Question vide", and the Groq client
\* is not called.
C30_EmptyQuestionIs400 ==
    (pc = "ask" /\ ask_call.pc = "responded" /\ ask_call.question = <<>>) =>
        /\ ask_call.status = 400
        /\ ask_call.detail = "Question vide"
        /\ ~ask_call.called

(***************************************************************************)
(* The startup event and the handlers of app/main.py, one at a time        *)
(***************************************************************************)
\* the data file exists and json.load can read it
Intact(file) == file # None /\ file # Damaged

\* C24: at startup, a data file that exists, loads without error and holds
\* a non-empty chunk list gives the index, built from its chunks, and no
\* scraping; a missing file, a load error or an empty chunk list lead to a
\* scrape (AUTO_SCRAPE_ON_STARTUP is set); and the startup event always
\* completes, also when neither the data nor the client could be set up.
C24_StartupLoadsOrScrapes ==
    /\ [][LET before == threads["startup"]
              after  == threads'["startup"]
          IN  /\ (before.pc = "load" /\ after.pc # "load") =>
                    /\ after.pc \in {"init", "scrape"}
                    /\ after.pc = "init" =>
                          /\ Intact(data_file)
                          /\ data_file.chunks # <<>>
                          /\ after.chunks = data_file.chunks
                    /\ (~Intact(data_file) \/ data_file.chunks = <<>>) =>
                          (AUTO_SCRAPE_ON_STARTUP => after.pc = "scrape")
              /\ (after.pc = "scrape" /\ before.pc # "scrape") => before.pc = "load"
              /\ (before.pc \in {"load", "init", "index", "publish", "groq_init"}
                     /\ after.pc # before.pc) => data_file' = data_file
              /\ (before.pc = "publish" /\ after.pc # "publish") =>
                    /\ semantic_search' # None
                    /\ heap'[semantic_search'.ref].chunks = data_file.chunks
                    /\ Complete(heap'[semantic_search'.ref])]_vars
    /\ <>Started

\* the startup event is over although the file could not be loaded, the
\* scrape failed and the client could not be created
C24_Witness ==
    /\ pc = "api"
    /\ Started
    /\ semantic_search = None
    /\ groq_client = None
    /\ \A t \in RequestThreads : threads[t].pc = "idle"

\* C27: whenever the global index is not None it holds at least one chunk,
\* after any startup and any requests of /scrape, the scrape of a page
\* without text included.
C27_LiveIndexNotEmpty ==
    (pc = "api" /\ semantic_search # None) => Len(heap[semantic_search.ref].chunks) >= 1

\* no rebuild is between its export and its assignment
NoRebuildUnderWay == \A t \in DOMAIN threads : threads[t].pc \notin {"init", "index", "publish"}

\* what /stats answered with status 200
StatsAnswers ==
    {threads[t].body : t \in {u \in RequestThreads : /\ threads[u].pc = "responded"
                                                      /\ threads[u].route = "/stats"
                                                      /\ threads[u].status = 200}}

ScrapingFails(t) ==
    /\ threads[t].pc = "scrape"
    /\ threads'[t].pc \in {"responded", "groq_init"}

\* C26: the global changes only by the assignment of an instance that is
\* fully built, at the end of a load or a scrape that succeeded; a call of
\* perform_scraping that returns False leaves the global and the live
\* instance as they were; and once the global is not None it is never None
\* again, whatever requests of /scrape, /chat, /search, /stats and /health
\* follow.
C26_HandleOnlyAssigned ==
    [][/\ semantic_search' # semantic_search =>
             \E t \in DOMAIN threads :
                 /\ threads[t].pc = "publish"
                 /\ threads'[t].pc \in {"groq_init", "scrape_stats"}
                 /\ semantic_search' = threads[t].new
                 /\ heap'[semantic_search'.ref].chunks = threads[t].chunks
                 /\ Complete(heap'[semantic_search'.ref])
       /\ \A t \in DOMAIN threads :
             ScrapingFails(t) =>
                 /\ semantic_search' = semantic_search
                 /\ heap' = heap
                 /\ threads'[t].route = "/scrape" => threads'[t].status = 500
       /\ semantic_search # None => semantic_search' # None]_vars

\* /scrape answered 500 and the index loaded at startup, two chunks, is
\* still the live one
C26_Witness ==
    /\ pc = "api"
    /\ threads["r1"].pc = "responded"
    /\ threads["r1"].route = "/scrape"
    /\ threads["r1"].status = 500
    /\ semantic_search = [ref |-> 1]
    /\ Len(heap[1].chunks) = 2
    /\ Complete(heap[1])

====
